---------------------------- MODULE Spec2Model ----------------------------
(***************************************************************************)
(* A model of the localhost HTTP/1.1 server: the epoll event loop of       *)
(* server/core.rs, the connection registry of server/connection.rs and     *)
(* utils/timeout.rs, the byte buffer of utils/buffer.rs, the incremental   *)
(* request parser of http/request.rs, the response encoder of              *)
(* http/response.rs and the dispatcher of http/methods.rs.                 *)
(*                                                                         *)
(* A byte is a one-character string; a byte string is a sequence of them.  *)
(* Option<usize> is an integer with -1 for None.                           *)
(***************************************************************************)
EXTENDS Integers, Sequences, FiniteSets, TLC

VARIABLES
    connections,    \* ConnectionManager.connections : fd -> Connection
    tm_connections, \* TimeoutManager.connections    : fd -> ConnectionInfo
    epoll_set,      \* the kernel's interest list    : fd -> "IN" | "OUT"
    error_count,    \* ResourceMonitor.error_count
    pc,             \* position of Server::event_loop
    events,         \* the batch returned by the last epoll_wait, still to process
    now,            \* the monotonic clock (seconds)
    open_fds,       \* client fds open in the process
    sock,           \* fd -> the socket and the peer behind it (latest use of the fd)
    backlog,        \* number of connections the kernel completed, not yet accepted
    peers_left,     \* connection attempts the environment may still make
    close_errors,   \* close_socket calls on an fd that was not open
    files,          \* the filesystem the handlers read and write
    feed_stream,    \* parser harness: the byte stream S
    feed_pos,       \* parser harness: bytes of S already fed
    feed_parser,    \* parser harness: the HttpRequestParser being fed
    feed_result,    \* parser harness: outcome of the feeds so far
    lookup_routes,  \* router harness: the routes of the binding
    lookup_path,    \* router harness: the request path looked up
    lookup_found,   \* router harness: the route found (its index, 0 for none,
                    \* -1 before the lookup)
    cgi,            \* CGI harness: one run of CgiExecutor::execute_script and its child
    buf             \* buffer harness: one Buffer and the bytes that went in and out

server_vars == <<connections, tm_connections, epoll_set, error_count, pc, events,
                 now, open_fds, sock, backlog, peers_left, close_errors, files>>
feed_vars == <<feed_stream, feed_pos, feed_parser, feed_result>>
lookup_vars == <<lookup_routes, lookup_path, lookup_found>>
cgi_vars == <<cgi>>
buffer_vars == <<buf>>
vars == <<server_vars, feed_vars, lookup_vars, cgi_vars, buffer_vars>>

---------------------------------------------------------------------------
(* Byte-string helpers: the std functions the code calls.                  *)

SetMin(S) == CHOOSE x \in S : \A y \in S : x <= y
SetMax(S) == CHOOSE x \in S : \A y \in S : x >= y
Min(a, b) == IF a < b THEN a ELSE b
Max(a, b) == IF a > b THEN a ELSE b

EmptyMap == [k \in {} |-> <<>>]
MapInsert(m, k, v) == [x \in (DOMAIN m) \cup {k} |-> IF x = k THEN v ELSE m[x]]

StartsWith(s, p) == Len(p) <= Len(s) /\ SubSeq(s, 1, Len(p)) = p
EndsWith(s, p) == Len(p) <= Len(s) /\ SubSeq(s, Len(s) - Len(p) + 1, Len(s)) = p
Drop(s, n) == SubSeq(s, n + 1, Len(s))

\* buffer.windows(n).position(..) / str::find: 0-based index of the first hit, -1 for None
find_sequence(buffer, pattern) ==
    LET hits == {i \in 0..(Len(buffer) - Len(pattern)) :
                    SubSeq(buffer, i + 1, i + Len(pattern)) = pattern}
    IN  IF hits = {} THEN -1 ELSE SetMin(hits)

Contains(s, p) == find_sequence(s, p) >= 0

IsWhitespace(c) == c \in {" ", "\t", "\n", "\r", "\f"}

RECURSIVE split_whitespace(_)
split_whitespace(s) ==
    IF s = <<>> THEN <<>>
    ELSE IF IsWhitespace(Head(s)) THEN split_whitespace(Tail(s))
    ELSE LET ws == {i \in 1..Len(s) : IsWhitespace(s[i])}
             e  == IF ws = {} THEN Len(s) + 1 ELSE SetMin(ws)
         IN  <<SubSeq(s, 1, e - 1)>> \o split_whitespace(SubSeq(s, e, Len(s)))

trim(s) ==
    LET nw == {i \in 1..Len(s) : ~IsWhitespace(s[i])}
    IN  IF nw = {} THEN <<>> ELSE SubSeq(s, SetMin(nw), SetMax(nw))

\* str::lines: split at "\n", a "\r" before it dropped; no empty last line
RECURSIVE lines(_)
lines(s) ==
    IF s = <<>> THEN <<>>
    ELSE LET nl == {i \in 1..Len(s) : s[i] = "\n"}
         IN  IF nl = {} THEN <<s>>
             ELSE LET e    == SetMin(nl)
                      raw  == SubSeq(s, 1, e - 1)
                      line == IF raw # <<>> /\ raw[Len(raw)] = "\r"
                              THEN SubSeq(raw, 1, Len(raw) - 1) ELSE raw
                  IN  <<line>> \o lines(SubSeq(s, e + 1, Len(s)))

\* str::split(sep) on a one-byte separator
RECURSIVE split_char(_, _)
split_char(s, sep) ==
    LET at == {i \in 1..Len(s) : s[i] = sep}
    IN  IF at = {} THEN <<s>>
        ELSE <<SubSeq(s, 1, SetMin(at) - 1)>> \o split_char(SubSeq(s, SetMin(at) + 1, Len(s)), sep)

UpperChars == <<"A","B","C","D","E","F","G","H","I","J","K","L","M",
                "N","O","P","Q","R","S","T","U","V","W","X","Y","Z">>
LowerChars == <<"a","b","c","d","e","f","g","h","i","j","k","l","m",
                "n","o","p","q","r","s","t","u","v","w","x","y","z">>
IndexIn(tbl, c) ==
    IF \E i \in 1..Len(tbl) : tbl[i] = c THEN CHOOSE i \in 1..Len(tbl) : tbl[i] = c ELSE 0
LowerChar(c) == IF IndexIn(UpperChars, c) > 0 THEN LowerChars[IndexIn(UpperChars, c)] ELSE c
UpperChar(c) == IF IndexIn(LowerChars, c) > 0 THEN UpperChars[IndexIn(LowerChars, c)] ELSE c

RECURSIVE to_lowercase(_)
to_lowercase(s) == IF s = <<>> THEN <<>> ELSE <<LowerChar(Head(s))>> \o to_lowercase(Tail(s))
RECURSIVE to_uppercase(_)
to_uppercase(s) == IF s = <<>> THEN <<>> ELSE <<UpperChar(Head(s))>> \o to_uppercase(Tail(s))

DigitChars == <<"0","1","2","3","4","5","6","7","8","9">>
DigitVal(c) == IndexIn(DigitChars, c) - 1
HexVal(c) ==
    IF DigitVal(c) >= 0 THEN DigitVal(c)
    ELSE IF IndexIn(SubSeq(LowerChars, 1, 6), c) > 0 THEN 9 + IndexIn(SubSeq(LowerChars, 1, 6), c)
    ELSE IF IndexIn(SubSeq(UpperChars, 1, 6), c) > 0 THEN 9 + IndexIn(SubSeq(UpperChars, 1, 6), c)
    ELSE -1

\* str::parse::<usize>: an optional "+" and at least one decimal digit; -1 for Err
RECURSIVE digits_value(_, _)
digits_value(s, acc) ==
    IF s = <<>> THEN acc ELSE digits_value(Tail(s), acc * 10 + DigitVal(Head(s)))
parse_usize(s) ==
    LET d == IF s # <<>> /\ Head(s) = "+" THEN Tail(s) ELSE s
    IN  IF d = <<>> \/ (\E i \in 1..Len(d) : DigitVal(d[i]) < 0) THEN -1
        ELSE digits_value(d, 0)

\* usize::to_string
RECURSIVE to_string(_)
to_string(n) ==
    IF n < 10 THEN <<DigitChars[n + 1]>> ELSE to_string(n \div 10) \o <<DigitChars[(n % 10) + 1]>>

\* u8::from_str_radix(two chars, 16): an optional "+" sign is accepted; -1 for Err
from_str_radix16(h1, h2) ==
    IF h1 = "+" THEN HexVal(h2)
    ELSE IF HexVal(h1) < 0 \/ HexVal(h2) < 0 THEN -1
    ELSE 16 * HexVal(h1) + HexVal(h2)

\* `byte as char`: the code points of the bytes the model's inputs can name with
\* a %HH escape; any other code point is one symbol
byte_as_char(v) ==
    CASE v = 32 -> " " [] v = 37 -> "%" [] v = 43 -> "+" [] v = 46 -> "."
      [] v = 47 -> "/" [] v = 50 -> "2" [] v = 53 -> "5" [] v = 63 -> "?"
      [] v = 65 -> "A" [] v = 97 -> "a" [] v = 13 -> "\r" [] v = 10 -> "\n"
      [] OTHER -> "<other>"

\* a byte that is not valid UTF-8 wherever it stands (0xFF)
InvalidUtf8Byte == "<ff>"
is_utf8(s) == \A i \in 1..Len(s) : s[i] # InvalidUtf8Byte

---------------------------------------------------------------------------
(* http/request.rs: HttpMethod, HttpVersion, HttpRequest, HttpRequestParser *)

CRLF == <<"\r", "\n">>
CRLFCRLF == <<"\r", "\n", "\r", "\n">>
s_GET == <<"G","E","T">>
s_POST == <<"P","O","S","T">>
s_DELETE == <<"D","E","L","E","T","E">>
s_HEAD == <<"H","E","A","D">>
s_PUT == <<"P","U","T">>
s_OPTIONS == <<"O","P","T","I","O","N","S">>
s_PATCH == <<"P","A","T","C","H">>
s_HTTP10 == <<"H","T","T","P","/","1",".","0">>
s_HTTP11 == <<"H","T","T","P","/","1",".","1">>
s_connection == <<"c","o","n","n","e","c","t","i","o","n">>
s_close == <<"c","l","o","s","e">>
s_keep_alive == <<"k","e","e","p","-","a","l","i","v","e">>
s_content_length == <<"c","o","n","t","e","n","t","-","l","e","n","g","t","h">>
s_transfer_encoding == <<"t","r","a","n","s","f","e","r","-","e","n","c","o","d","i","n","g">>
s_chunked == <<"c","h","u","n","k","e","d">>
s_host == <<"h","o","s","t">>

HttpMethod_from_str(s) ==
    LET u == to_uppercase(s)
    IN  CASE u = s_GET -> "GET" [] u = s_POST -> "POST" [] u = s_DELETE -> "DELETE"
          [] u = s_HEAD -> "HEAD" [] u = s_PUT -> "PUT" [] u = s_OPTIONS -> "OPTIONS"
          [] u = s_PATCH -> "PATCH" [] OTHER -> "None"

HttpVersion_from_str(s) ==
    CASE s = s_HTTP10 -> "Http10" [] s = s_HTTP11 -> "Http11" [] OTHER -> "None"

\* HttpRequest::new (the cookie jar, which the request path never reads, is left out)
HttpRequest_new ==
    [method |-> "GET", uri |-> <<"/">>, version |-> "Http11", headers |-> EmptyMap,
     body |-> <<>>, query_params |-> EmptyMap, path |-> <<"/">>]

\* HttpRequest::get_header: -1 stands for None in has_header
has_header(request, name) ==
    \E k \in DOMAIN request.headers : to_lowercase(k) = to_lowercase(name)
get_header(request, name) ==
    request.headers[CHOOSE k \in DOMAIN request.headers : to_lowercase(k) = to_lowercase(name)]

keep_alive_case_sensitive(request) ==
    IF request.version = "Http11"
    THEN IF has_header(request, s_connection)
         THEN get_header(request, s_connection) # s_close ELSE TRUE
    ELSE IF has_header(request, s_connection)
         THEN get_header(request, s_connection) = s_keep_alive ELSE FALSE

keep_alive(request) ==
    IF request.version = "Http11"
    THEN IF has_header(request, s_connection)
         THEN to_lowercase(get_header(request, s_connection)) # s_close ELSE TRUE
    ELSE IF has_header(request, s_connection)
         THEN to_lowercase(get_header(request, s_connection)) = s_keep_alive ELSE FALSE

content_length(request) ==
    IF has_header(request, s_content_length)
    THEN parse_usize(get_header(request, s_content_length)) ELSE -1

is_chunked(request) ==
    IF has_header(request, s_transfer_encoding)
    THEN Contains(to_lowercase(get_header(request, s_transfer_encoding)), s_chunked)
    ELSE FALSE

RECURSIVE url_decode_from(_, _)
url_decode_from(s, acc) ==
    IF s = <<>> THEN [ok |-> TRUE, value |-> acc]
    ELSE IF Head(s) = "%"
    THEN IF Len(s) < 3 \/ from_str_radix16(s[2], s[3]) < 0
         THEN [ok |-> FALSE, value |-> acc]
         ELSE url_decode_from(Drop(s, 3), Append(acc, byte_as_char(from_str_radix16(s[2], s[3]))))
    ELSE IF Head(s) = "+" THEN url_decode_from(Tail(s), Append(acc, " "))
    ELSE url_decode_from(Tail(s), Append(acc, Head(s)))
url_decode(s) == url_decode_from(s, <<>>)

ParseOk(request) == [ok |-> TRUE, err |-> "", request |-> request]
ParseErr(request, msg) == [ok |-> FALSE, err |-> msg, request |-> request]

RECURSIVE parse_query_pairs(_, _)
\* one pair of the loop of parse_query_params, its key and value decoded
query_pair(request, pairs, key, value) ==
    IF ~key.ok \/ ~value.ok THEN ParseErr(request, "Invalid URL encoding")
    ELSE parse_query_pairs(
            [request EXCEPT !.query_params = MapInsert(@, key.value, value.value)],
            Tail(pairs))
\* one pair of the loop, cut at its "=" (eq_pos, -1 when it has none)
query_pair_at(request, pairs, pair, eq_pos) ==
    query_pair(request, pairs,
               url_decode(IF eq_pos >= 0 THEN SubSeq(pair, 1, eq_pos) ELSE pair),
               IF eq_pos >= 0 THEN url_decode(Drop(pair, eq_pos + 1))
               ELSE [ok |-> TRUE, value |-> <<>>])
parse_query_pairs(request, pairs) ==
    IF pairs = <<>> THEN ParseOk(request)
    ELSE query_pair_at(request, pairs, Head(pairs), find_sequence(Head(pairs), <<"=">>))
parse_query_params(request, query) == parse_query_pairs(request, split_char(query, "&"))

\* the end of parse_uri: the path is decoded once the query has been parsed
parse_uri_decoded(queried, decoded) ==
    IF ~queried.ok THEN queried
    ELSE IF ~decoded.ok THEN ParseErr(queried.request, "Invalid URL encoding")
    ELSE ParseOk([queried.request EXCEPT !.path = decoded.value])
parse_uri_queried(queried) == parse_uri_decoded(queried, url_decode(queried.request.path))
\* parse_uri with the place of the "?" (query_start, -1 when there is none)
parse_uri_at(request, uri, query_start) ==
    parse_uri_queried(
        IF query_start >= 0
        THEN parse_query_params([request EXCEPT !.path = SubSeq(uri, 1, query_start)],
                                Drop(uri, query_start + 1))
        ELSE ParseOk([request EXCEPT !.path = uri]))
parse_uri(request, uri) == parse_uri_at(request, uri, find_sequence(uri, <<"?">>))

\* the end of parse_request_line: the version, after parse_uri returned r
parse_request_line_version(r, version) ==
    IF ~r.ok THEN r
    ELSE IF version = "None" THEN ParseErr(r.request, "Unsupported HTTP version")
    ELSE ParseOk([r.request EXCEPT !.version = version])
\* parse_request_line over the parts of the line, the method already looked up
parse_request_line_parts(request, parts, method) ==
    IF Len(parts) # 3 THEN ParseErr(request, "Invalid request line")
    ELSE IF method = "None" THEN ParseErr(request, "Unknown HTTP method")
    ELSE parse_request_line_version(
            parse_uri([request EXCEPT !.method = method, !.uri = parts[2]], parts[2]),
            HttpVersion_from_str(parts[3]))
parse_request_line_split(request, parts) ==
    parse_request_line_parts(request, parts,
        IF Len(parts) # 3 THEN "None" ELSE HttpMethod_from_str(parts[1]))
parse_request_line(request, line) == parse_request_line_split(request, split_whitespace(line))

RECURSIVE parse_header_lines(_, _)
parse_header_lines(request, ls) ==
    IF ls = <<>> THEN ParseOk(request)
    ELSE IF Head(ls) = <<>> THEN parse_header_lines(request, Tail(ls))
    ELSE LET line      == Head(ls)
             colon_pos == find_sequence(line, <<":">>)
         IN  IF colon_pos < 0 THEN ParseErr(request, "Invalid header line")
             ELSE parse_header_lines(
                    [request EXCEPT !.headers =
                        MapInsert(@, to_lowercase(trim(SubSeq(line, 1, colon_pos))),
                                     trim(Drop(line, colon_pos + 1)))],
                    Tail(ls))
parse_headers(request, headers_str) == parse_header_lines(request, lines(headers_str))

\* HttpRequestParser::new (headers_end_pos is written only by new and reset)
HttpRequestParser_new ==
    [state |-> "RequestLine", request |-> HttpRequest_new,
     body_bytes_remaining |-> -1, buffer |-> <<>>]

Step(parser, kind, err) == [parser |-> parser, kind |-> kind, err |-> err]

\* the loop of HttpRequestParser::parse, after the new data was appended
RECURSIVE parse_loop(_)
\* ParseState::RequestLine once the line is drained and parse_request_line returned r
request_line_parsed(drained, r) ==
    IF ~r.ok THEN Step([drained EXCEPT !.request = r.request], "Err", r.err)
    ELSE parse_loop([drained EXCEPT !.request = r.request, !.state = "Headers"])
\* ParseState::RequestLine with the place of the first CRLF (line_end, -1 for None)
request_line_at(p, line_end) ==
    IF line_end < 0 THEN Step(p, "None", "")
    ELSE IF ~is_utf8(SubSeq(p.buffer, 1, line_end))
    THEN Step(p, "Err", "Invalid UTF-8 in request line")
    ELSE request_line_parsed([p EXCEPT !.buffer = Drop(p.buffer, line_end + 2)],
                             parse_request_line(p.request, SubSeq(p.buffer, 1, line_end)))
\* ParseState::Headers once the block is parsed into parsed.request: the body that follows
headers_body(parsed, len) ==
    IF len >= 0
    THEN IF len > 0
         THEN parse_loop([parsed EXCEPT !.body_bytes_remaining = len, !.state = "Body"])
         ELSE parse_loop([parsed EXCEPT !.state = "Complete"])
    ELSE IF is_chunked(parsed.request)
    THEN Step(parsed, "Err", "Chunked encoding not yet implemented")
    ELSE parse_loop([parsed EXCEPT !.state = "Complete"])
\* ParseState::Headers once the block is drained and parse_headers returned r
headers_parsed(parsed, r) ==
    IF ~r.ok THEN Step(parsed, "Err", r.err)
    ELSE headers_body(parsed, content_length(parsed.request))
headers_drained(drained, r) == headers_parsed([drained EXCEPT !.request = r.request], r)
\* ParseState::Headers with the place of the first blank line (headers_end, -1 for None)
headers_at(p, headers_end) ==
    IF headers_end < 0 THEN Step(p, "None", "")
    ELSE IF ~is_utf8(SubSeq(p.buffer, 1, headers_end))
    THEN Step(p, "Err", "Invalid UTF-8 in headers")
    ELSE headers_drained([p EXCEPT !.buffer = Drop(p.buffer, headers_end + 4)],
                         parse_headers(p.request, SubSeq(p.buffer, 1, headers_end)))
parse_loop(p) ==
    CASE p.state = "RequestLine" -> request_line_at(p, find_sequence(p.buffer, CRLF))
      [] p.state = "Headers" -> headers_at(p, find_sequence(p.buffer, CRLFCRLF))
      [] p.state = "Body" ->
            IF p.body_bytes_remaining >= 0
            THEN IF Len(p.buffer) >= p.body_bytes_remaining
                 THEN parse_loop([p EXCEPT
                        !.request.body = SubSeq(p.buffer, 1, p.body_bytes_remaining),
                        !.buffer = Drop(p.buffer, p.body_bytes_remaining),
                        !.state = "Complete"])
                 ELSE Step(p, "None", "")
            ELSE parse_loop([p EXCEPT !.state = "Complete"])
      [] OTHER -> Step(p, "Some", "")

ParseResult(initial_buffer_len, data, r) ==
    [parser |-> r.parser, kind |-> r.kind, err |-> r.err,
     request |-> IF r.kind = "Some" THEN r.parser.request ELSE HttpRequest_new,
     consumed |-> IF r.kind = "Err" THEN 0
                  ELSE initial_buffer_len + Len(data) - Len(r.parser.buffer)]

\* a parser that keeps no bytes between two calls
parse_forgetting(p, data) ==
    ParseResult(0, data, parse_loop([p EXCEPT !.buffer = data]))

\* HttpRequestParser::parse: kind is Some (a request), None (need more data) or Err
parse(p, data) ==
    ParseResult(Len(p.buffer), data, parse_loop([p EXCEPT !.buffer = p.buffer \o data]))

\* HttpRequestParser::reset
reset(p) == HttpRequestParser_new

---------------------------------------------------------------------------
(* utils/buffer.rs.  data holds the bytes data[0..write_pos] of the Vec;   *)
(* cap is data.len().                                                      *)

BUFFER_CAPACITY == 8192
READ_RESERVE == 1024

Buffer_new(capacity) == [data |-> <<>>, read_pos |-> 0, write_pos |-> 0, cap |-> capacity]

readable_data(b) == SubSeq(b.data, b.read_pos + 1, b.write_pos)
readable_bytes(b) == b.write_pos - b.read_pos
writable_bytes(b) == b.cap - b.write_pos
is_empty(b) == b.read_pos = b.write_pos

\* Buffer::consume, as written
consume(b, bytes) ==
    LET rp == Min(b.read_pos + bytes, b.write_pos) IN
    IF rp = b.write_pos
    THEN [b EXCEPT !.data = <<>>, !.read_pos = 0, !.write_pos = 0]
    ELSE [b EXCEPT !.read_pos = rp]

clear(b) == [b EXCEPT !.data = <<>>, !.read_pos = 0, !.write_pos = 0]

\* a compaction that moves the cursors and leaves the bytes where they were
ensure_writable_space_cursors_only(b, needed) ==
    IF writable_bytes(b) >= needed THEN b
    ELSE LET c == IF b.read_pos > 0
                  THEN [b EXCEPT !.data = SubSeq(b.data, 1, b.write_pos - b.read_pos),
                                 !.write_pos = b.write_pos - b.read_pos,
                                 !.read_pos = 0]
                  ELSE b
         IN IF writable_bytes(c) >= needed THEN c
            ELSE [c EXCEPT !.cap = Max(c.cap * 2, c.cap + needed)]

ensure_writable_space(b, needed) ==
    IF writable_bytes(b) >= needed THEN b
    ELSE LET c == IF b.read_pos > 0
                  THEN [b EXCEPT !.data = readable_data(b),
                                 !.write_pos = b.write_pos - b.read_pos,
                                 !.read_pos = 0]
                  ELSE b
         IN IF writable_bytes(c) >= needed THEN c
            ELSE [c EXCEPT !.cap = Max(c.cap * 2, c.cap + needed)]

\* the copy into writable_data() followed by Buffer::advance_write
advance_write(b, bytes) ==
    [b EXCEPT !.data = SubSeq(b.data, 1, b.write_pos) \o bytes,
              !.write_pos = Min(b.write_pos + Len(bytes), b.cap)]

append(b, bytes) == advance_write(ensure_writable_space(b, Len(bytes)), bytes)

\* Buffer::read_from_fd when the kernel holds the bytes avail for the fd:
\* the buffer after the read and the count read(2) returned
read_from_fd(b, avail) ==
    LET e == ensure_writable_space(b, READ_RESERVE)
        n == Min(Len(avail), writable_bytes(e))
    IN [buffer |-> advance_write(e, SubSeq(avail, 1, n)), n |-> n]

\* a write that drops what write(2) did not take
write_to_fd_dropping_rest(b, n) == clear(b)

\* Buffer::write_to_fd when write(2) took n bytes
write_to_fd(b, n) == consume(b, n)

---------------------------------------------------------------------------
(* http/response.rs and error/mod.rs.  A header value or a body the code   *)
(* builds from a literal is kept as one symbol; text that comes from the   *)
(* peer or from a CGI child is kept byte by byte.                          *)

h_Server == <<"S","e","r","v","e","r">>
h_Date == <<"D","a","t","e">>
h_Content_Length == <<"C","o","n","t","e","n","t","-","L","e","n","g","t","h">>
h_Content_Type == <<"C","o","n","t","e","n","t","-","T","y","p","e">>
h_Connection == <<"C","o","n","n","e","c","t","i","o","n">>
h_Location == <<"L","o","c","a","t","i","o","n">>
h_Last_Modified == <<"L","a","s","t","-","M","o","d","i","f","i","e","d">>
h_Cache_Control == <<"C","a","c","h","e","-","C","o","n","t","r","o","l">>
h_X_Content_Type_Options == <<"X","-","C","o","n","t","e","n","t","-","T","y","p","e","-","O","p","t","i","o","n","s">>
h_X_Frame_Options == <<"X","-","F","r","a","m","e","-","O","p","t","i","o","n","s">>
h_X_XSS_Protection == <<"X","-","X","S","S","-","P","r","o","t","e","c","t","i","o","n">>
s_content_type == <<"c","o","n","t","e","n","t","-","t","y","p","e">>
s_status == <<"s","t","a","t","u","s">>
s_location == <<"l","o","c","a","t","i","o","n">>
text_html == <<"text/html; charset=utf-8">>
text_plain == <<"text/plain; charset=utf-8">>

StatusCodes == {200, 201, 204, 301, 302, 400, 403, 404, 405, 413, 500}

reason_phrase(status) ==
    CASE status = 200 -> <<"OK">>
      [] status = 201 -> <<"Created">>
      [] status = 204 -> <<"No Content">>
      [] status = 301 -> <<"Moved Permanently">>
      [] status = 302 -> <<"Found">>
      [] status = 400 -> <<"Bad Request">>
      [] status = 403 -> <<"Forbidden">>
      [] status = 404 -> <<"Not Found">>
      [] status = 405 -> <<"Method Not Allowed">>
      [] status = 413 -> <<"Request Entity Too Large">>
      [] status = 500 -> <<"Internal Server Error">>

HttpResponse_new(status) ==
    [status |-> status,
     headers |-> MapInsert(MapInsert(EmptyMap, h_Server, <<"localhost-http-server/0.1.0">>),
                           h_Date, <<"<http date>">>),
     body |-> <<>>]

add_header(response, name, value) ==
    [response EXCEPT !.headers = MapInsert(response.headers, name, value)]

set_body(response, body) ==
    add_header([response EXCEPT !.body = body], h_Content_Length, to_string(Len(body)))

set_content_type(response, content_type) == add_header(response, h_Content_Type, content_type)

set_keep_alive(response, ka) ==
    add_header(response, h_Connection, IF ka THEN s_keep_alive ELSE s_close)

\* HashMap iteration order is unspecified; the model emits one fixed order.
RECURSIVE header_lines(_, _)
header_lines(headers, names) ==
    IF names = {} THEN <<>>
    ELSE LET name == CHOOSE n \in names : TRUE
         IN name \o <<":", " ">> \o headers[name] \o CRLF
            \o header_lines(headers, names \ {name})

to_bytes(response) ==
    s_HTTP11 \o <<" ">> \o to_string(response.status) \o <<" ">>
        \o reason_phrase(response.status) \o CRLF
        \o header_lines(response.headers, DOMAIN response.headers)
        \o CRLF \o response.body

HttpResponse_text(status, text) == set_body(set_content_type(HttpResponse_new(status), text_plain), text)
HttpResponse_html(status, html) == set_body(set_content_type(HttpResponse_new(status), text_html), html)
HttpResponse_file(status, content, content_type) ==
    set_body(set_content_type(HttpResponse_new(status), content_type), content)
HttpResponse_redirect(location, permanent) ==
    set_content_type(
        set_body(add_header(HttpResponse_new(IF permanent THEN 301 ELSE 302), h_Location, location),
                 <<"<redirect page>">>),
        text_html)
HttpResponse_error(status, message) == HttpResponse_html(status, <<"<error>", message>>)

\* error/pages.rs: ErrorPageManager::generate_error_response, no custom pages
generate_error_response(status, custom_message) ==
    add_header(add_header(add_header(
        HttpResponse_html(status, <<"<error page>", custom_message>>),
        h_X_Content_Type_Options, <<"nosniff">>),
        h_X_Frame_Options, <<"DENY">>),
        h_X_XSS_Protection, <<"1; mode=block">>)

---------------------------------------------------------------------------
(* config/types.rs, routing/router.rs, routing/static_files.rs,            *)
(* cgi/executor.rs and http/methods.rs, over one configuration and one     *)
(* filesystem.                                                             *)

p_www == <<"w","w","w">>
p_index_html == <<"i","n","d","e","x",".","h","t","m","l">>
p_www_index == <<"w","w","w","/","i","n","d","e","x",".","h","t","m","l">>
p_www_f == <<"w","w","w","/","f">>
p_www_d == <<"w","w","w","/","d">>
p_www_esc == <<"w","w","w","/",".",".","/","s">>
p_s == <<"s">>
p_cgi == <<"c","g","i">>
p_cgi_ok == <<"c","g","i","/","o","k">>
p_cgi_cl == <<"c","g","i","/","c","l">>
p_cgi_st == <<"c","g","i","/","s","t">>
p_cgi_bad == <<"c","g","i","/","b","a","d">>
p_cgi_cn == <<"c","g","i","/","c","n">>
p_cgi_to == <<"c","g","i","/","t","o">>
p_cgi_big == <<"c","g","i","/","b","i","g">>
p_cgi_pipe == <<"c","g","i","/","p","i","p","e">>
p_cgi_ns == <<"c","g","i","/","n","s">>
p_up == <<"u","p">>
p_up_x == <<"u","p","/","x">>
r_root == <<"/">>
r_cgi == <<"/","c","g","i">>
r_up == <<"/","u","p">>
r_old == <<"/","o","l","d">>

\* RouteConfig::default
RouteConfig_default ==
    [path |-> r_root, methods |-> {"GET", "POST", "DELETE"}, redirect |-> <<>>,
     has_redirect |-> FALSE, root |-> p_www, has_root |-> TRUE,
     index |-> p_index_html, has_index |-> TRUE, cgi |-> FALSE,
     directory_listing |-> FALSE, upload_enabled |-> FALSE]

\* the configured server: the default route, a CGI route, an upload route
\* and a redirect
ServerConfig ==
    [max_body_size |-> 4,
     routes |-> << RouteConfig_default,
                   [RouteConfig_default EXCEPT !.path = r_cgi, !.root = p_cgi, !.cgi = TRUE,
                                               !.methods = {"GET", "POST", "HEAD"}],
                   [RouteConfig_default EXCEPT !.path = r_up, !.root = p_up,
                                               !.upload_enabled = TRUE],
                   [RouteConfig_default EXCEPT !.path = r_old, !.redirect = r_root,
                                               !.has_redirect = TRUE] >>]

Dir(canonical) == [kind |-> "dir", content |-> <<>>, canonical |-> canonical, mime |-> <<>>]
File(canonical, content, mime) ==
    [kind |-> "file", content |-> content, canonical |-> canonical, mime |-> mime]

\* the filesystem at start-up: path -> entry
InitialFiles ==
    (p_www :> Dir(p_www)) @@ (p_www_index :> File(p_www_index, <<"<index>">>, <<"text/html">>))
    @@ (p_www_f :> File(p_www_f, <<"f", "f">>, <<"application/octet-stream">>))
    @@ (p_www_d :> Dir(p_www_d)) @@ (p_www_esc :> File(p_s, <<"secret">>, <<"text/plain">>))
    @@ (p_cgi :> Dir(p_cgi)) @@ (p_cgi_ok :> File(p_cgi_ok, <<>>, <<>>))
    @@ (p_cgi_cl :> File(p_cgi_cl, <<>>, <<>>)) @@ (p_cgi_st :> File(p_cgi_st, <<>>, <<>>))
    @@ (p_cgi_bad :> File(p_cgi_bad, <<>>, <<>>)) @@ (p_cgi_cn :> File(p_cgi_cn, <<>>, <<>>))
    @@ (p_cgi_to :> File(p_cgi_to, <<>>, <<>>)) @@ (p_cgi_big :> File(p_cgi_big, <<>>, <<>>))
    @@ (p_cgi_pipe :> File(p_cgi_pipe, <<>>, <<>>)) @@ (p_cgi_ns :> File(p_cgi_ns, <<>>, <<>>))
    @@ (p_up :> Dir(p_up)) @@ (p_up_x :> File(p_up_x, <<"x">>, <<"application/octet-stream">>))

\* what each CGI child does when run: its exit and its standard output
cgi_out_ok == <<"C","o","n","t","e","n","t","-","T","y","p","e",":"," ","t","\r","\n","\r","\n","h","i">>
cgi_out_cl == <<"c","o","n","t","e","n","t","-","l","e","n","g","t","h",":"," ","9","\n","\n","h","i">>
cgi_out_status == <<"X","-","A",":"," ","b","\n","S","t","a","t","u","s",":"," ","4","0","4"," ","N","o","t"," ","F","o","u","n","d","\n","\n","n","o">>
cgi_out_cn == <<"c","o","n","n","e","c","t","i","o","n",":"," ","c","l","o","s","e","\n","\n","h","i">>
CgiChild(script_path) ==
    CASE script_path = p_cgi_ok -> [outcome |-> "Response", stdout |-> cgi_out_ok]
      [] script_path = p_cgi_cl -> [outcome |-> "Response", stdout |-> cgi_out_cl]
      [] script_path = p_cgi_st -> [outcome |-> "Response", stdout |-> cgi_out_status]
      [] script_path = p_cgi_cn -> [outcome |-> "Response", stdout |-> cgi_out_cn]
      [] script_path = p_cgi_to -> [outcome |-> "Timeout", stdout |-> cgi_out_ok]
      [] script_path = p_cgi_big -> [outcome |-> "Oversize", stdout |-> cgi_out_ok]
      [] script_path = p_cgi_pipe -> [outcome |-> "StdinFailed", stdout |-> cgi_out_ok]
      [] script_path = p_cgi_ns -> [outcome |-> "SpawnFailed", stdout |-> <<>>]
      [] OTHER -> [outcome |-> "Error500", stdout |-> cgi_out_ok]

Ok(response, fs) == [ok |-> TRUE, response |-> response, fs |-> fs]
Err(fs) == [ok |-> FALSE, response |-> HttpResponse_new(500), fs |-> fs]

\* Router::path_matches_route
path_matches_route(path, route_path) ==
    \/ path = route_path
    \/ IF EndsWith(route_path, <<"/">>) THEN StartsWith(path, route_path)
       ELSE /\ StartsWith(path, route_path)
            /\ LET remaining == Drop(path, Len(route_path))
               IN remaining = <<>> \/ Head(remaining) = "/"

\* Router::find_best_route: the index of the route, 0 when none matches
RECURSIVE find_best_route_from(_, _, _, _, _)
find_best_route_from(routes, path, i, best_match, best_match_len) ==
    IF i > Len(routes) THEN best_match
    ELSE IF path_matches_route(path, routes[i].path) /\ Len(routes[i].path) > best_match_len
         THEN find_best_route_from(routes, path, i + 1, i, Len(routes[i].path))
         ELSE find_best_route_from(routes, path, i + 1, best_match, best_match_len)
\* a router that takes the first route that matches
find_best_route_first(server, path) ==
    IF \A i \in 1..Len(server.routes) : ~path_matches_route(path, server.routes[i].path)
    THEN 0
    ELSE SetMin({i \in 1..Len(server.routes) : path_matches_route(path, server.routes[i].path)})
find_best_route(server, path) == find_best_route_from(server.routes, path, 1, 0, 0)

\* Path::starts_with compares whole components
path_starts_with(p, base) ==
    StartsWith(p, base) /\ (Len(p) = Len(base) \/ p[Len(base) + 1] = "/")
\* PathBuf::push
path_join(base, rel) == IF Head(rel) = "/" THEN rel ELSE base \o <<"/">> \o rel

\* StaticFileServer::resolve_path
resolve_path(fs, root, request_path, route_path) ==
    LET rel1 == IF StartsWith(request_path, route_path)
                THEN Drop(request_path, Len(route_path)) ELSE request_path
        relative_path == IF rel1 # <<>> /\ Head(rel1) = "/" THEN Tail(rel1) ELSE rel1
        full_path == IF relative_path # <<>> THEN path_join(root, relative_path) ELSE root
    IN IF root \notin DOMAIN fs THEN [ok |-> FALSE, path |-> <<>>]
       ELSE IF full_path \in DOMAIN fs
               /\ ~path_starts_with(fs[full_path].canonical, fs[root].canonical)
            THEN [ok |-> FALSE, path |-> <<>>]
            ELSE [ok |-> TRUE, path |-> full_path]

\* StaticFileServer::serve_file with add_caching_headers
serve_file(fs, file_path) ==
    IF file_path \notin DOMAIN fs THEN Ok(HttpResponse_error(404, "File not found"), fs)
    ELSE IF fs[file_path].kind # "file" THEN Ok(HttpResponse_error(403, "Not a file"), fs)
    ELSE Ok(add_header(add_header(
                HttpResponse_file(200, fs[file_path].content, fs[file_path].mime),
                h_Last_Modified, <<"<http date>">>),
                h_Cache_Control, <<"public, max-age=3600">>), fs)

\* StaticFileServer::serve_directory
serve_directory(fs, dir_path, route) ==
    IF dir_path \notin DOMAIN fs \/ fs[dir_path].kind # "dir"
    THEN Ok(HttpResponse_error(404, "Directory not found"), fs)
    ELSE LET index_path == path_join(dir_path, route.index) IN
         IF route.has_index /\ index_path \in DOMAIN fs /\ fs[index_path].kind = "file"
         THEN serve_file(fs, index_path)
         ELSE IF route.directory_listing
              THEN Ok(HttpResponse_html(200, <<"<directory listing>">>), fs)
              ELSE Ok(HttpResponse_error(403, "Directory listing disabled"), fs)

\* str::parse::<u16>
parse_u16(s) == IF parse_usize(s) > 65535 THEN -1 ELSE parse_usize(s)

\* the status match of CgiExecutor::parse_cgi_output
cgi_status(status_code) == IF status_code \in StatusCodes THEN status_code ELSE 200

\* the header loop of CgiExecutor::parse_cgi_output; content_type_set is
\* carried with the response
RECURSIVE parse_cgi_headers(_, _, _)
parse_cgi_headers(response, content_type_set, ls) ==
    IF ls = <<>> THEN [response |-> response, content_type_set |-> content_type_set]
    ELSE LET line      == Head(ls)
             colon_pos == find_sequence(line, <<":">>)
             name      == trim(SubSeq(line, 1, colon_pos))
             value     == trim(Drop(line, colon_pos + 1))
             space_pos == find_sequence(value, <<" ">>)
             lname     == to_lowercase(name)
         IN  IF trim(line) = <<>> \/ colon_pos < 0
             THEN parse_cgi_headers(response, content_type_set, Tail(ls))
             ELSE IF lname = s_content_type
             THEN parse_cgi_headers(set_content_type(response, value), TRUE, Tail(ls))
             ELSE IF lname = s_status
             THEN IF space_pos >= 0 /\ parse_u16(SubSeq(value, 1, space_pos)) >= 0
                  THEN parse_cgi_headers(
                           HttpResponse_new(cgi_status(parse_u16(SubSeq(value, 1, space_pos)))),
                           content_type_set, Tail(ls))
                  ELSE parse_cgi_headers(response, content_type_set, Tail(ls))
             ELSE IF lname = s_location
             THEN parse_cgi_headers(add_header(response, h_Location, value),
                                    content_type_set, Tail(ls))
             ELSE parse_cgi_headers(add_header(response, name, value),
                                    content_type_set, Tail(ls))

\* CgiExecutor::parse_cgi_output
\* the end of parse_cgi_output: the default content type, then the body
parse_cgi_body(h, body) ==
    set_body(IF h.content_type_set THEN h.response
             ELSE set_content_type(h.response, text_html), body)
\* parse_cgi_output with the place where the header block ends (-1 for None)
parse_cgi_output_at(output, header_end) ==
    IF header_end < 0 THEN HttpResponse_html(200, output)
    ELSE parse_cgi_body(parse_cgi_headers(HttpResponse_new(200), FALSE,
                                          lines(SubSeq(output, 1, header_end - 2))),
                        Drop(output, header_end))
parse_cgi_output(output) ==
    parse_cgi_output_at(output,
        IF find_sequence(output, CRLFCRLF) >= 0 THEN find_sequence(output, CRLFCRLF) + 4
        ELSE IF find_sequence(output, <<"\n", "\n">>) >= 0
        THEN find_sequence(output, <<"\n", "\n">>) + 2
        ELSE -1)

\* how the run of a script on input_data ends: as the child is known to
\* behave, the write to its stdin failing only when there is input to write
cgi_outcome(script_path, input_data) ==
    IF CgiChild(script_path).outcome = "StdinFailed" /\ input_data = <<>> THEN "Response"
    ELSE CgiChild(script_path).outcome

\* an executor that takes whatever the child wrote, however the run ended
execute_script_trusting(script_path, input_data) ==
    [ok |-> TRUE, response |-> parse_cgi_output(CgiChild(script_path).stdout)]

\* CgiExecutor::execute_script over the child the filesystem names; ok is
\* FALSE when the function returns Err
execute_script(script_path, input_data) ==
    CASE cgi_outcome(script_path, input_data) = "Response" ->
            [ok |-> TRUE, response |-> parse_cgi_output(CgiChild(script_path).stdout)]
      [] cgi_outcome(script_path, input_data) = "Error500" ->
            [ok |-> TRUE, response |-> HttpResponse_error(500, "CGI script execution failed")]
      [] OTHER -> [ok |-> FALSE, response |-> HttpResponse_new(500)]

\* MethodHandler::handle_cgi
\* the unwrap_or_else of handle_cgi on what CgiExecutor::execute returned
handle_cgi_executed(fs, executed) ==
    Ok(IF executed.ok THEN executed.response
       ELSE generate_error_response(500, "CGI script execution failed"), fs)
handle_cgi_at(fs, request, route, script_path) ==
    IF ~route.has_root \/ ~script_path.ok THEN Err(fs)
    ELSE IF script_path.path \notin DOMAIN fs
    THEN Ok(generate_error_response(404, "CGI script not found"), fs)
    ELSE IF fs[script_path.path].kind # "file"
    THEN Ok(generate_error_response(403, "Not a valid CGI script"), fs)
    ELSE handle_cgi_executed(fs, execute_script(script_path.path, request.body))
handle_cgi(fs, request, route) ==
    handle_cgi_at(fs, request, route, resolve_path(fs, route.root, request.path, route.path))

\* MethodHandler::handle_get
handle_get_at(fs, request, route, file_path) ==
    IF route.has_redirect THEN Ok(HttpResponse_redirect(route.redirect, FALSE), fs)
    ELSE IF route.cgi THEN handle_cgi(fs, request, route)
    ELSE IF ~route.has_root \/ ~file_path.ok THEN Err(fs)
    ELSE IF file_path.path \notin DOMAIN fs
    THEN Ok(generate_error_response(404, "File not found"), fs)
    ELSE IF fs[file_path.path].kind = "dir" THEN serve_directory(fs, file_path.path, route)
    ELSE serve_file(fs, file_path.path)
handle_get(fs, request, route) ==
    handle_get_at(fs, request, route,
                  resolve_path(fs, route.root, request.path, route.path))

\* MethodHandler::handle_file_upload: the file is named after the clock
handle_file_upload(fs, t, request, route) ==
    LET file_path == path_join(route.root, <<"upload_">> \o to_string(t) \o <<".bin">>) IN
    IF ~route.has_root \/ route.root \notin DOMAIN fs THEN Err(fs)
    ELSE Ok(HttpResponse_text(201, <<"File uploaded successfully: ">> \o file_path),
            (file_path :> File(file_path, request.body, <<>>)) @@ fs)

\* MethodHandler::handle_post
handle_post(fs, t, request, route) ==
    IF route.cgi THEN handle_cgi(fs, request, route)
    ELSE IF route.upload_enabled THEN handle_file_upload(fs, t, request, route)
    ELSE Ok(HttpResponse_text(200, <<"POST request received">>), fs)

\* MethodHandler::handle_delete
handle_delete_at(fs, route, file_path) ==
    IF ~route.has_root \/ ~file_path.ok THEN Err(fs)
    ELSE IF file_path.path \notin DOMAIN fs
    THEN Ok(generate_error_response(404, "File not found"), fs)
    ELSE IF ~route.upload_enabled
    THEN Ok(generate_error_response(403, "Deletion not allowed in this directory"), fs)
    ELSE IF fs[file_path.path].kind = "file"
    THEN Ok(HttpResponse_text(204, <<>>),
            [p \in (DOMAIN fs) \ {file_path.path} |-> fs[p]])
    ELSE Ok(generate_error_response(500, "Failed to delete file"), fs)
handle_delete(fs, request, route) ==
    handle_delete_at(fs, route, resolve_path(fs, route.root, request.path, route.path))

\* MethodHandler::handle_head
handle_head_of(got) ==
    IF ~got.ok THEN got
    ELSE Ok(add_header([got.response EXCEPT !.body = <<>>], h_Content_Length, <<"0">>), got.fs)
handle_head(fs, request, route) == handle_head_of(handle_get(fs, request, route))

\* handle_request with a body limit that also refuses a body of exactly
\* max_body_size bytes
handle_request_routed_inclusive(fs, t, request, server, route) ==
    IF Len(request.body) >= server.max_body_size
    THEN Ok(generate_error_response(413, "Request body size exceeds limit"), fs)
    ELSE IF request.method \notin route.methods
    THEN Ok(generate_error_response(405, "Method not allowed for this route"), fs)
    ELSE CASE request.method = "GET"    -> handle_get(fs, request, route)
           [] request.method = "POST"   -> handle_post(fs, t, request, route)
           [] request.method = "DELETE" -> handle_delete(fs, request, route)
           [] request.method = "HEAD"   -> handle_head(fs, request, route)
           [] OTHER -> Ok(generate_error_response(405, "Method not implemented"), fs)

\* MethodHandler::handle_request at clock t over the filesystem fs
\* MethodHandler::handle_request once Router::find_route returned (server, route)
handle_request_routed(fs, t, request, server, route) ==
    IF Len(request.body) > server.max_body_size
    THEN Ok(generate_error_response(413, "Request body size exceeds limit"), fs)
    ELSE IF request.method \notin route.methods
    THEN Ok(generate_error_response(405, "Method not allowed for this route"), fs)
    ELSE CASE request.method = "GET"    -> handle_get(fs, request, route)
           [] request.method = "POST"   -> handle_post(fs, t, request, route)
           [] request.method = "DELETE" -> handle_delete(fs, request, route)
           [] request.method = "HEAD"   -> handle_head(fs, request, route)
           [] OTHER -> Ok(generate_error_response(405, "Method not implemented"), fs)
handle_request_at(fs, t, request, server, i) ==
    IF i = 0 THEN Err(fs)
    ELSE handle_request_routed(fs, t, request, server, server.routes[i])
handle_request(fs, t, request) ==
    handle_request_at(fs, t, request, ServerConfig,
                      find_best_route(ServerConfig, request.path))

---------------------------------------------------------------------------
(* The peers: each follows a script, a list of the chunks it sends, which  *)
(* it picks when it sends the first.                                       *)

req_index_11 ==
    <<"G","E","T"," ","/"," ","H","T","T","P","/","1",".","1","\r","\n","H",":"," ","a",
      "\r","\n","\r","\n">>
req_missing_close ==
    <<"G","E","T"," ","/","n"," ","H","T","T","P","/","1",".","1","\r","\n","C","o","n","n",
      "e","c","t","i","o","n",":"," ","C","l","o","s","e","\r","\n","\r","\n">>
req_index_10_keep ==
    <<"G","E","T"," ","/"," ","H","T","T","P","/","1",".","0","\r","\n","C","o","n","n","e",
      "c","t","i","o","n",":"," ","K","e","e","p","-","A","l","i","v","e","\r","\n","\r",
      "\n">>
req_index_10 ==
    <<"G","E","T"," ","/"," ","H","T","T","P","/","1",".","0","\r","\n","H",":"," ","a",
      "\r","\n","\r","\n">>
req_headerless == <<"G","E","T"," ","/"," ","H","T","T","P","/","1",".","0","\r","\n","\r","\n">>
req_cgi_cl ==
    <<"G","E","T"," ","/","c","g","i","/","c","l"," ","H","T","T","P","/","1",".","1","\r",
      "\n","H",":"," ","a","\r","\n","\r","\n">>
req_post_head ==
    <<"P","O","S","T"," ","/","u","p"," ","H","T","T","P","/","1",".","1","\r","\n","C","o",
      "n","t","e","n","t","-","L","e","n","g","t","h",":"," ","2","\r","\n","\r","\n","h">>
req_post_tail == <<"i">>
req_bad == <<"B","A","D","\r","\n">>

Scripts ==
    << <<req_index_11 \o req_index_11>>,
       <<req_index_11, req_missing_close>>,
       <<req_index_10_keep>>,
       <<req_index_10>>,
       <<req_headerless>>,
       <<req_cgi_cl>>,
       <<req_post_head, req_post_tail>>,
       <<req_bad>> >>

\* the bytes a peer following script sid has sent after step chunks
RECURSIVE Flatten(_)
Flatten(chunks) == IF chunks = <<>> THEN <<>> ELSE Head(chunks) \o Flatten(Tail(chunks))
SentBytes(sid, step) == Flatten(SubSeq(Scripts[sid], 1, step))

\* a socket as accept(2) returns it, with the peer's record of its use:
\* rx are the bytes queued for the server, out the bytes the kernel took from
\* it, log the replies the server queued, recv and fed the bytes the server
\* read and the bytes it passed to the parser, io_at the instant of the last
\* read or write that moved bytes (-1 before the first); the closed_ fields,
\* unsent and delivered are filled in when the server closes the socket
NewSock ==
    [sid |-> 0, step |-> 0, rx |-> <<>>, eof |-> FALSE, rst |-> FALSE, out |-> <<>>,
     closes |-> 0, closed_by |-> "", closed_in |-> "None", unsent |-> FALSE,
     delivered |-> 0,
     log |-> <<>>, recv |-> 0, fed |-> 0, io_at |-> 0 - 1]

---------------------------------------------------------------------------
(* server/connection.rs, utils/timeout.rs, server/epoll.rs and             *)
(* server/core.rs.  The handlers are operators on a record st of the       *)
(* server's state: connections, tm (TimeoutManager.connections), epoll,    *)
(* fds (open client fds), sock, errors, close_errors and files.            *)

REQUEST_TIMEOUT == 30
KEEP_ALIVE_TIMEOUT == 60
LISTEN_FD == 3

\* bounds of the model
MaxConnections == 1
MaxFds == 2
MaxPeers == 2
TickStep == 16
MaxTime == 32
PartialWrite == 60

ClientFds == (LISTEN_FD + 1)..(LISTEN_FD + MaxFds)

RemoveKey(m, k) == [x \in (DOMAIN m) \ {k} |-> m[x]]

\* Connection::new at instant t
Connection_new(t) ==
    [state |-> "Reading", read_buffer |-> Buffer_new(BUFFER_CAPACITY),
     write_buffer |-> Buffer_new(BUFFER_CAPACITY), last_activity |-> t,
     keep_alive |-> FALSE, request_count |-> 0, http_parser |-> HttpRequestParser_new]

\* a reset that leaves the parser as the last request left it
reset_for_keep_alive_keeping_parser(conn, t) ==
    [conn EXCEPT !.read_buffer = clear(@), !.write_buffer = clear(@), !.state = "Reading",
                 !.request_count = @ + 1, !.last_activity = t]

\* Connection::reset_for_keep_alive at instant t
reset_for_keep_alive(conn, t) ==
    [conn EXCEPT !.read_buffer = clear(@), !.write_buffer = clear(@), !.state = "Reading",
                 !.request_count = @ + 1, !.http_parser = reset(@), !.last_activity = t]

\* TimeoutManager::add_connection: the ConnectionInfo inserted at instant t
ConnectionInfo_new(t) ==
    [created_at |-> t, last_activity |-> t, request_count |-> 0, bytes_read |-> 0,
     bytes_written |-> 0, state |-> "Reading"]

\* a limit that admits one connection more
is_at_limit_off_by_one(tm) == Cardinality(DOMAIN tm) > MaxConnections

\* TimeoutManager::is_at_limit, the test of TimeoutManager::add_connection
is_at_limit(tm) == Cardinality(DOMAIN tm) >= MaxConnections

\* a sweep that gives every connection the keep-alive timeout
get_timed_out_connections_lenient(tm, t) ==
    {fd \in DOMAIN tm : t - tm[fd].last_activity > KEEP_ALIVE_TIMEOUT}

\* TimeoutManager::get_timed_out_connections at instant t
get_timed_out_connections(tm, t) ==
    {fd \in DOMAIN tm :
        t - tm[fd].last_activity >
            (IF tm[fd].state = "KeepAlive" THEN KEEP_ALIVE_TIMEOUT ELSE REQUEST_TIMEOUT)}

\* ConnectionManager::update_activity(fd, bytes, true) at instant t
update_activity(st, fd, bytes_transferred, t) ==
    [st EXCEPT
        !.tm = IF fd \in DOMAIN @
               THEN [@ EXCEPT ![fd].last_activity = t,
                              ![fd].bytes_read = @ + bytes_transferred]
               ELSE @,
        !.connections = IF fd \in DOMAIN @ THEN [@ EXCEPT ![fd].last_activity = t] ELSE @]

\* ConnectionManager::record_request at instant t
record_request(st, fd, t) ==
    [st EXCEPT
        !.tm = IF fd \in DOMAIN @
               THEN [@ EXCEPT ![fd].last_activity = t, ![fd].request_count = @ + 1]
               ELSE @,
        !.connections = IF fd \in DOMAIN @
                        THEN [@ EXCEPT ![fd].last_activity = t, ![fd].request_count = @ + 1]
                        ELSE @]

\* ResourceMonitor::record_error
record_error(st) == [st EXCEPT !.errors = @ + 1]

\* a removal that leaves the timeout tracking alone
remove_connection_registry_only(st, fd) ==
    [st EXCEPT !.connections = RemoveKey(@, fd)]

\* ConnectionManager::remove_connection
remove_connection(st, fd) ==
    [st EXCEPT !.tm = RemoveKey(@, fd), !.connections = RemoveKey(@, fd)]

\* Epoll::add, Epoll::modify and Epoll::remove: ok is FALSE when epoll_ctl
\* fails.  ADD and MOD also fail, whatever the fd, when the kernel has no
\* memory or no watch left for them (st.ctl_fails).
epoll_add(st, fd, interest) ==
    IF st.ctl_fails THEN [st |-> st, ok |-> FALSE]
    ELSE [st |-> [st EXCEPT !.epoll = (fd :> interest) @@ @], ok |-> fd \notin DOMAIN st.epoll]
\* a modify that reports success and leaves the interest as it was
epoll_modify_ignored(st, fd, interest) == [st |-> st, ok |-> TRUE]
epoll_modify(st, fd, interest) ==
    IF st.ctl_fails THEN [st |-> st, ok |-> FALSE]
    ELSE IF fd \in DOMAIN st.epoll
    THEN [st |-> [st EXCEPT !.epoll[fd] = interest], ok |-> TRUE]
    ELSE [st |-> st, ok |-> FALSE]
epoll_remove(st, fd) ==
    [st |-> [st EXCEPT !.epoll = RemoveKey(@, fd)], ok |-> fd \in DOMAIN st.epoll]

\* close_socket: close(2) also drops the fd from the kernel's interest list
close_socket(st, fd) ==
    [st EXCEPT !.fds = @ \ {fd},
               !.epoll = RemoveKey(@, fd),
               !.close_errors = IF fd \in st.fds THEN @ ELSE @ + 1,
               !.sock[fd].closes = @ + 1]

\* the peer's record of a teardown, which ends its record of the socket's
\* use: the call site, the state the connection was in and whether its write
\* buffer still held bytes, and the count of the bytes the peer was sent
note_teardown(st, fd, why) ==
    [st EXCEPT !.sock[fd] =
        [NewSock EXCEPT
            !.closes = st.sock[fd].closes,
            !.closed_by = why,
            !.closed_in = IF fd \in DOMAIN st.connections
                          THEN st.connections[fd].state ELSE "None",
            !.unsent = fd \in DOMAIN st.connections
                       /\ ~is_empty(st.connections[fd].write_buffer),
            !.delivered = Len(st.sock[fd].out)]]

\* Server::cleanup_connection
cleanup_connection(st, fd, why) ==
    IF fd \in DOMAIN st.connections
    THEN close_socket(epoll_remove(remove_connection(note_teardown(st, fd, why), fd), fd).st, fd)
    ELSE st

\* Server::cleanup_timed_out_connections at instant t, with
\* ConnectionManager::cleanup_expired
RECURSIVE close_timed_out(_, _)
close_timed_out(st, timed_out) ==
    IF timed_out = {} THEN st
    ELSE LET fd == CHOOSE x \in timed_out : TRUE
         IN close_timed_out(
                close_socket(epoll_remove(remove_connection(note_teardown(st, fd, "timeout"), fd),
                                          fd).st, fd),
                timed_out \ {fd})
cleanup_timed_out_connections(st, t) ==
    close_timed_out(st, get_timed_out_connections(st.tm, t))

\* Server::send_response; entry is the peer's record of what was queued
send_response(st, fd, response, ka, dispatched, request) ==
    LET reply == set_keep_alive(response, ka)
        entry == [dispatched |-> dispatched, request |-> request, response |-> reply]
    IN  IF fd \in DOMAIN st.connections
        THEN epoll_modify(
                [st EXCEPT !.connections[fd].write_buffer = append(@, to_bytes(reply)),
                           !.connections[fd].keep_alive = ka,
                           !.connections[fd].state = "Writing",
                           !.sock[fd].log = Append(@, entry)],
                fd, "OUT")
        ELSE [st |-> st, ok |-> TRUE]

\* Server::send_error_response
send_error_response(st, fd, status, message) ==
    send_response(st, fd, generate_error_response(status, message), FALSE, FALSE, HttpRequest_new)

\* Server::process_http_request at instant t
process_http_request_handled(st, fd, request, t, handled) ==
    send_response(record_request([st EXCEPT !.files = handled.fs], fd, t), fd,
                  IF handled.ok THEN handled.response
                  ELSE generate_error_response(500, "Internal server error"),
                  keep_alive(request), TRUE, request)
process_http_request(st, fd, request, t) ==
    process_http_request_handled(st, fd, request, t, handle_request(st.files, t, request))

\* Server::handle_read at instant t.  read(2) fails on a reset socket,
\* returns the queued bytes, 0 at end of stream, and EAGAIN (which
\* Buffer::read_from_fd turns into Ok(0)) when nothing is queued.
\* the Ok(_bytes_read) arm of handle_read: http_parser.parse(data) returned r
handle_read_parsed(st, fd, t, conn, rd, data, r) ==
    LET st2   == [st EXCEPT
                    !.connections[fd] = [conn EXCEPT !.read_buffer = rd.buffer,
                                                     !.http_parser = r.parser],
                    !.sock[fd].rx = Drop(@, rd.n),
                    !.sock[fd].recv = @ + rd.n,
                    !.sock[fd].fed = @ + Len(data),
                    !.sock[fd].io_at = t]
        eaten == [st2 EXCEPT !.connections[fd].read_buffer = consume(@, r.consumed)]
    IN  IF r.kind = "Some"
        THEN process_http_request(update_activity(eaten, fd, r.consumed, t), fd, r.request, t)
        ELSE IF r.kind = "None"
        THEN [st |-> IF r.consumed > 0 THEN eaten ELSE st2, ok |-> TRUE]
        ELSE send_error_response(record_error(st2), fd, 400, "Invalid HTTP request")
\* the match of handle_read on what read_buffer.read_from_fd(fd) returned
handle_read_from_fd(st, fd, t, conn, rd) ==
    IF st.sock[fd].rst
    THEN [st |-> cleanup_connection([st EXCEPT !.connections[fd] = conn], fd, "read_error"),
          ok |-> TRUE]
    ELSE IF rd.n = 0
    THEN [st |-> cleanup_connection([st EXCEPT !.connections[fd] = conn], fd,
                                    IF st.sock[fd].eof THEN "eof" ELSE "eagain"),
          ok |-> TRUE]
    ELSE handle_read_parsed(st, fd, t, conn, rd, readable_data(rd.buffer),
                            parse(conn.http_parser, readable_data(rd.buffer)))
handle_read_touched(st, fd, t, conn) ==
    handle_read_from_fd(st, fd, t, conn, read_from_fd(conn.read_buffer, st.sock[fd].rx))
handle_read(st, fd, t) ==
    IF fd \notin DOMAIN st.connections THEN [st |-> st, ok |-> TRUE]
    ELSE handle_read_touched(st, fd, t, [st.connections[fd] EXCEPT !.last_activity = t])

\* Server::handle_write at instant t, when write(2) has room for space bytes;
\* Buffer::write_to_fd makes no call on an empty buffer and turns EAGAIN
\* into Ok(0)
handle_write(st, fd, t, space) ==
    IF fd \notin DOMAIN st.connections THEN [st |-> st, ok |-> TRUE]
    ELSE
    LET s      == st.sock[fd]
        conn   == [st.connections[fd] EXCEPT !.last_activity = t]
        n      == Min(readable_bytes(conn.write_buffer), space)
        sent   == SubSeq(readable_data(conn.write_buffer), 1, n)
        wrote  == [conn EXCEPT !.write_buffer = write_to_fd(@, n)]
        st1    == [st EXCEPT !.connections[fd] = conn]
        st2    == [st EXCEPT !.connections[fd] = wrote, !.sock[fd].out = @ \o sent,
                             !.sock[fd].io_at = IF n > 0 THEN t ELSE @]
    IN  IF ~is_empty(conn.write_buffer) /\ s.rst
        THEN [st |-> cleanup_connection(st1, fd, "write_error"), ok |-> TRUE]
        ELSE IF ~is_empty(wrote.write_buffer) THEN [st |-> st2, ok |-> TRUE]
        ELSE IF wrote.keep_alive
        THEN epoll_modify([st2 EXCEPT !.connections[fd] = reset_for_keep_alive(@, t)], fd, "IN")
        ELSE [st |-> cleanup_connection(st2, fd, "response_done"), ok |-> TRUE]

\* Server::accept_new_connections at instant t: accept(2) hands out the lowest
\* free descriptor, fails when the process has none left, and reports EAGAIN
\* once the backlog is empty.  ok is FALSE when the function returns Err.
RECURSIVE accept_new_connections(_, _, _)
accept_new_connections(st, pending, t) ==
    IF pending = 0 THEN [st |-> st, backlog |-> pending, ok |-> TRUE]
    ELSE IF ClientFds \ st.fds = {} THEN [st |-> st, backlog |-> pending, ok |-> FALSE]
    ELSE
    LET client_fd == SetMin(ClientFds \ st.fds)
        opened    == [st EXCEPT !.fds = @ \cup {client_fd},
                                !.sock[client_fd] = NewSock]
        added     == epoll_add(opened, client_fd, "IN")
        rejected  == epoll_remove(
                        close_socket(note_teardown(record_error(added.st), client_fd, "rejected"),
                                     client_fd),
                        client_fd)
        admitted  == [added.st EXCEPT
                        !.tm = (client_fd :> ConnectionInfo_new(t)) @@ @,
                        !.connections = (client_fd :> Connection_new(t)) @@ @]
    IN  IF ~added.ok THEN [st |-> added.st, backlog |-> pending - 1, ok |-> FALSE]
        ELSE IF is_at_limit(added.st.tm)
        THEN IF rejected.ok THEN accept_new_connections(rejected.st, pending - 1, t)
             ELSE [st |-> rejected.st, backlog |-> pending - 1, ok |-> FALSE]
        ELSE accept_new_connections(admitted, pending - 1, t)

\* Server::handle_event on a client fd: the EPOLLOUT test, after the EPOLLIN
\* test left rd
with_backlog(r, pending) == [st |-> r.st, backlog |-> pending, ok |-> r.ok]
handle_event_out(rd, pending, e, t, space) ==
    with_backlog(IF rd.ok /\ e.out THEN handle_write(rd.st, e.fd, t, space) ELSE rd, pending)
\* a handler that tests Readable and Writable before Error and Hangup
handle_event_flags_first(st, pending, e, t, space) ==
    IF e.fd = LISTEN_FD
    THEN IF e.hup THEN [st |-> cleanup_connection(st, e.fd, "hup"), backlog |-> pending, ok |-> TRUE]
         ELSE IF e.in THEN accept_new_connections(st, pending, t)
         ELSE [st |-> st, backlog |-> pending, ok |-> TRUE]
    ELSE IF e.in \/ e.out
    THEN handle_event_out(IF e.in THEN handle_read(st, e.fd, t) ELSE [st |-> st, ok |-> TRUE],
                          pending, e, t, space)
    ELSE [st |-> cleanup_connection(st, e.fd, "hup"), backlog |-> pending, ok |-> TRUE]
\* Server::handle_event at instant t
handle_event(st, pending, e, t, space) ==
    IF e.hup
    THEN [st |-> cleanup_connection(st, e.fd, "hup"), backlog |-> pending, ok |-> TRUE]
    ELSE IF e.fd = LISTEN_FD
    THEN IF e.in THEN accept_new_connections(st, pending, t)
         ELSE [st |-> st, backlog |-> pending, ok |-> TRUE]
    ELSE handle_event_out(IF e.in THEN handle_read(st, e.fd, t) ELSE [st |-> st, ok |-> TRUE],
                          pending, e, t, space)
\* the Err arm of the for loop of Server::event_loop
event_or_cleanup(r, fd) ==
    IF r.ok THEN r ELSE [r EXCEPT !.st = cleanup_connection(r.st, fd, "handler_error")]

\* Server::shutdown
RECURSIVE cleanup_all(_, _)
cleanup_all(st, fds) ==
    IF fds = {} THEN st
    ELSE LET fd == CHOOSE x \in fds : TRUE
         IN cleanup_all(cleanup_connection(st, fd, "shutdown"), fds \ {fd})
shutdown(st) ==
    [cleanup_all(st, DOMAIN st.connections) EXCEPT !.epoll = RemoveKey(@, LISTEN_FD)]

\* epoll_wait over a level-triggered interest list: ERR and HUP are reported
\* whatever the interest
epoll_wait(st, pending) ==
    {[fd |-> LISTEN_FD, in |-> TRUE, out |-> FALSE, hup |-> FALSE] :
        x \in IF LISTEN_FD \in DOMAIN st.epoll /\ pending > 0 THEN {0} ELSE {}}
    \cup
    {e \in {[fd |-> fd,
             in |-> st.epoll[fd] = "IN" /\ (st.sock[fd].rx # <<>> \/ st.sock[fd].eof),
             out |-> st.epoll[fd] = "OUT",
             hup |-> st.sock[fd].rst] : fd \in (DOMAIN st.epoll) \ {LISTEN_FD}} :
        e.in \/ e.out \/ e.hup}

---------------------------------------------------------------------------
(* The state machine.                                                      *)

St ==
    [connections |-> connections, tm |-> tm_connections, epoll |-> epoll_set,
     fds |-> open_fds, sock |-> sock, errors |-> error_count,
     close_errors |-> close_errors, files |-> files, ctl_fails |-> FALSE]

Commit(st) ==
    /\ connections' = st.connections
    /\ tm_connections' = st.tm
    /\ epoll_set' = st.epoll
    /\ open_fds' = st.fds
    /\ sock' = st.sock
    /\ error_count' = st.errors
    /\ close_errors' = st.close_errors
    /\ files' = st.files

WriteSpaces == {0, PartialWrite, BUFFER_CAPACITY}

InitServer ==
    /\ connections = EmptyMap
    /\ tm_connections = EmptyMap
    /\ epoll_set = (LISTEN_FD :> "IN")
    /\ error_count = 0
    /\ pc = "wait"
    /\ events = {}
    /\ now = 0
    /\ open_fds = {}
    /\ sock = [fd \in ClientFds |-> NewSock]
    /\ backlog = 0
    /\ peers_left = MaxPeers
    /\ close_errors = 0
    /\ files = InitialFiles

InitFeed ==
    /\ feed_stream = <<>>
    /\ feed_pos = 0
    /\ feed_parser = HttpRequestParser_new
    /\ feed_result = [kind |-> "None", err |-> "", request |-> HttpRequest_new,
                      consumed |-> 0, calls |-> 0, cut |-> 0]

InitLookup ==
    /\ lookup_routes = <<>>
    /\ lookup_path = <<>>
    /\ lookup_found = -1

\* no CGI run is being followed
InitCgi == cgi = [pc |-> "idle"]

\* no Buffer is being followed
InitBuffer == buf = [pc |-> "idle"]

Init == InitServer /\ InitFeed /\ InitLookup /\ InitCgi /\ InitBuffer

\* one turn of Server::event_loop up to the for loop: epoll_wait returns,
\* then the first sweep runs
EpollWait ==
    /\ pc = "wait"
    /\ events' = epoll_wait(St, backlog)
    /\ Commit(cleanup_timed_out_connections(St, now))
    /\ pc' = "events"
    /\ UNCHANGED <<now, backlog, peers_left, feed_vars, lookup_vars, cgi_vars, buffer_vars>>

\* one iteration of the for loop of Server::event_loop
CommitEvent(r, e) ==
    /\ Commit(r.st)
    /\ backlog' = r.backlog
    /\ events' = events \ {e}
HandleEvent ==
    /\ pc = "events"
    /\ \E e \in events, space \in WriteSpaces :
          CommitEvent(event_or_cleanup(handle_event(St, backlog, e, now, space), e.fd), e)
    /\ UNCHANGED <<pc, now, peers_left, feed_vars, lookup_vars, cgi_vars, buffer_vars>>

\* the end of the turn: the second sweep
EndOfTurn ==
    /\ pc = "events"
    /\ events = {}
    /\ Commit(cleanup_timed_out_connections(St, now))
    /\ pc' = "wait"
    /\ UNCHANGED <<events, now, backlog, peers_left, feed_vars, lookup_vars, cgi_vars, buffer_vars>>

\* epoll_wait returns -1, with EINTR when a signal interrupted it or with any
\* other errno: Epoll::wait returns Err for every -1, event_loop returns the
\* error and Drop runs shutdown
WaitFails ==
    /\ pc = "wait"
    /\ Commit(shutdown(St))
    /\ pc' = "stopped"
    /\ UNCHANGED <<events, now, backlog, peers_left, feed_vars, lookup_vars, cgi_vars, buffer_vars>>

\* the clock advances while the loop blocks in epoll_wait
Tick ==
    /\ pc = "wait"
    /\ now + TickStep <= MaxTime
    /\ now' = now + TickStep
    /\ UNCHANGED <<connections, tm_connections, epoll_set, error_count, pc, events,
                   open_fds, sock, backlog, peers_left, close_errors, files, feed_vars, lookup_vars, cgi_vars, buffer_vars>>

PeerConnect ==
    /\ pc # "stopped"
    /\ peers_left > 0
    /\ backlog' = backlog + 1
    /\ peers_left' = peers_left - 1
    /\ UNCHANGED <<connections, tm_connections, epoll_set, error_count, pc, events, now,
                   open_fds, sock, close_errors, files, feed_vars, lookup_vars, cgi_vars, buffer_vars>>

PeerSend ==
    /\ pc # "stopped"
    /\ \E fd \in open_fds :
          /\ ~sock[fd].eof /\ ~sock[fd].rst
          /\ \E sid \in IF sock[fd].sid = 0 THEN 1..Len(Scripts) ELSE {sock[fd].sid} :
                /\ sock[fd].step < Len(Scripts[sid])
                /\ sock' = [sock EXCEPT ![fd].sid = sid,
                                        ![fd].rx = @ \o Scripts[sid][sock[fd].step + 1],
                                        ![fd].step = @ + 1]
    /\ UNCHANGED <<connections, tm_connections, epoll_set, error_count, pc, events, now,
                   open_fds, backlog, peers_left, close_errors, files, feed_vars, lookup_vars, cgi_vars, buffer_vars>>

\* the peer, done with its script, shuts its side down (FIN)
PeerClose ==
    /\ pc # "stopped"
    /\ \E fd \in open_fds :
          /\ ~sock[fd].eof /\ ~sock[fd].rst
          /\ sock[fd].sid # 0 /\ sock[fd].step = Len(Scripts[sock[fd].sid])
          /\ sock' = [sock EXCEPT ![fd].eof = TRUE]
    /\ UNCHANGED <<connections, tm_connections, epoll_set, error_count, pc, events, now,
                   open_fds, backlog, peers_left, close_errors, files, feed_vars, lookup_vars, cgi_vars, buffer_vars>>

\* the peer resets the connection (RST)
PeerReset ==
    /\ pc # "stopped"
    /\ \E fd \in open_fds :
          /\ ~sock[fd].rst
          /\ sock' = [sock EXCEPT ![fd].rst = TRUE, ![fd].rx = <<>>]
    /\ UNCHANGED <<connections, tm_connections, epoll_set, error_count, pc, events, now,
                   open_fds, backlog, peers_left, close_errors, files, feed_vars, lookup_vars, cgi_vars, buffer_vars>>

Next ==
    \/ EpollWait
    \/ HandleEvent
    \/ EndOfTurn
    \/ WaitFails
    \/ Tick
    \/ PeerConnect
    \/ PeerSend
    \/ PeerClose
    \/ PeerReset

Spec == Init /\ [][Next]_vars

---------------------------------------------------------------------------
(* The parser on its own: a byte stream is fed to a fresh parser in pieces. *)

MaxFeeds == 2

stream_query ==
    <<"G","E","T"," ","/","a","%","2","0","b","?","x","=","1","+","2","&","y"," ","H","T",
      "T","P","/","1",".","1","\r","\n","H","o","s","t",":"," ","L","o","\r","\n","\r","\n",
      "G","E">>
stream_bad_header ==
    <<"G","E","T"," ","/"," ","H","T","T","P","/","1",".","1","\r","\n","b","a","d","\r",
      "\n","\r","\n">>
stream_chunked ==
    <<"P","O","S","T"," ","/"," ","H","T","T","P","/","1",".","1","\r","\n","T","r","a","n",
      "s","f","e","r","-","E","n","c","o","d","i","n","g",":"," ","C","h","u","n","k","e",
      "d","\r","\n","\r","\n">>
stream_bad_escape ==
    <<"G","E","T"," ","/","%","z","z"," ","H","T","T","P","/","1",".","1","\r","\n","H",":",
      " ","a","\r","\n","\r","\n">>
stream_bad_version ==
    <<"G","E","T"," ","/"," ","H","T","T","P","/","2",".","0","\r","\n","H",":"," ","a",
      "\r","\n","\r","\n">>
stream_invalid_utf8 == <<"G","E","T"," ","/",InvalidUtf8Byte," ","H","T","T","P","/","1",".","1","\r","\n">>

stream_plus ==
    <<"G","E","T"," ","/","a","+","b","?","c","+","d","=","e","+","f"," ","H","T","T",
      "P","/","1",".","1","\r","\n","H",":"," ","a","\r","\n","\r","\n">>
stream_double_escape ==
    <<"G","E","T"," ","/","%","2","5","4","1"," ","H","T","T","P","/","1",".","1","\r",
      "\n","H",":"," ","a","\r","\n","\r","\n">>
stream_truncated_escape ==
    <<"G","E","T"," ","/","%","4"," ","H","T","T","P","/","1",".","1","\r","\n","H",":",
      " ","a","\r","\n","\r","\n">>
stream_no_slash ==
    <<"G","E","T"," ","x"," ","H","T","T","P","/","1",".","1","\r","\n","H",":"," ","a",
      "\r","\n","\r","\n">>
stream_length_zero_chunked ==
    <<"P","O","S","T"," ","/"," ","H","T","T","P","/","1",".","1","\r","\n","C","o","n",
      "t","e","n","t","-","L","e","n","g","t","h",":"," ","0","\r","\n","T","r","a","n",
      "s","f","e","r","-","E","n","c","o","d","i","n","g",":"," ","c","h","u","n","k",
      "e","d","\r","\n","\r","\n">>

Streams ==
    {req_index_11, req_missing_close, req_headerless, req_bad,
     req_post_head \o req_post_tail \o s_GET, SubSeq(req_index_10_keep, 1, 30),
     stream_query, stream_bad_header, stream_chunked, stream_bad_escape,
     stream_bad_version, stream_invalid_utf8, stream_plus, stream_double_escape,
     stream_truncated_escape, stream_no_slash, stream_length_zero_chunked}

InitParse ==
    /\ InitBuffer
    /\ InitServer
    /\ InitLookup
    /\ InitCgi
    /\ feed_stream \in Streams
    /\ feed_pos = 0
    /\ feed_parser = HttpRequestParser_new
    /\ feed_result = [kind |-> "None", err |-> "", request |-> HttpRequest_new,
                      consumed |-> 0, calls |-> 0, cut |-> 0]

\* one call of parse on the next k bytes of the stream; the caller stops at
\* the first Err
Fed(r, k) ==
    /\ feed_parser' = r.parser
    /\ feed_pos' = feed_pos + k
    /\ feed_result' = [kind |-> r.kind, err |-> r.err, request |-> r.request,
                       consumed |-> feed_result.consumed + r.consumed,
                       calls |-> feed_result.calls + 1,
                       cut |-> IF feed_result.calls = 0 THEN feed_pos + k
                               ELSE feed_result.cut]
Feed ==
    /\ feed_result.kind # "Err"
    /\ feed_result.calls < MaxFeeds
    /\ \E k \in 1..(Len(feed_stream) - feed_pos) :
          Fed(parse(feed_parser, SubSeq(feed_stream, feed_pos + 1, feed_pos + k)), k)
    /\ UNCHANGED <<feed_stream, server_vars, lookup_vars, cgi_vars, buffer_vars>>

NextParse == Feed

SpecParse == InitParse /\ [][NextParse]_vars

---------------------------------------------------------------------------
(* Properties.                                                             *)

ParseWhole == parse(HttpRequestParser_new, feed_stream)

\* C3: parser resumability.  Feeding a stream to a fresh parser in pieces
\* yields the outcome of feeding it at once: an error of the pieces is the
\* error of the whole, and once every byte is fed the parsed request (or the
\* need for more data) and the total of the bytes consumed are those of the
\* whole.
ParserResumable ==
    /\ feed_result.kind = "Err" =>
          ParseWhole.kind = "Err" /\ ParseWhole.err = feed_result.err
    /\ (feed_result.kind # "Err" /\ feed_pos = Len(feed_stream) /\ feed_result.calls > 0) =>
          /\ ParseWhole.kind = feed_result.kind
          /\ ParseWhole.request = feed_result.request
          /\ ParseWhole.consumed = feed_result.consumed

\* a request with a body, cut inside its header block, parsed by the second call
ParserResumableWitness ==
    /\ feed_stream = req_post_head \o req_post_tail \o s_GET
    /\ feed_result.calls = 2 /\ feed_result.cut = 25
    /\ feed_pos = Len(feed_stream)
    /\ feed_result.kind = "Some"
    /\ feed_result.request.body = <<"h", "i">>
    /\ feed_result.consumed = Len(feed_stream) - 3


\* the bytes of the replies a socket's log holds, in the order they were queued
RECURSIVE Wire(_)
Wire(log) == IF log = <<>> THEN <<>> ELSE to_bytes(Head(log).response) \o Wire(Tail(log))

\* the script the peer behind fd follows, empty until it has sent a chunk
ScriptOf(fd) == IF sock[fd].sid = 0 THEN <<>> ELSE Scripts[sock[fd].sid]

\* the request a peer's bytes hold when they are parsed at once
WholeRequest(sid) == parse(HttpRequestParser_new, Flatten(Scripts[sid]))

\* C1: bytes past the end of a request are carried forward.  A connection that
\* read two complete requests in one read and has drained its first reply
\* either has queued the second reply or still holds the second request's
\* bytes to parse.
PipelinedBytesCarriedForward ==
    \A fd \in DOMAIN connections :
        (/\ ScriptOf(fd) = <<req_index_11 \o req_index_11>>
         /\ sock[fd].recv = 2 * Len(req_index_11)
         /\ Len(sock[fd].log) >= 1
         /\ connections[fd].state = "Reading")
        => \/ Len(sock[fd].log) = 2
           \/ ~is_empty(connections[fd].read_buffer)
           \/ connections[fd].http_parser.buffer # <<>>

\* C2: partial reads are tolerated.  The first request a connection hands to
\* the dispatcher is the one its peer's bytes hold when parsed at once, however
\* the reads split them, and no byte is passed to the parser twice.
PartialReadsTolerated ==
    \A fd \in DOMAIN connections :
        /\ sock[fd].fed <= sock[fd].recv
        /\ (sock[fd].log # <<>> /\ WholeRequest(sock[fd].sid).kind = "Some")
           => /\ sock[fd].log[1].dispatched
              /\ sock[fd].log[1].request = WholeRequest(sock[fd].sid).request

\* C4: a request line followed at once by the blank line is answered.  Once
\* the server has read every byte of GET / HTTP/1.0 CRLF CRLF, a reply with
\* Connection: close is queued for the request.
HeaderlessRequestAnswered ==
    \A fd \in DOMAIN connections :
        (ScriptOf(fd) = <<req_headerless>> /\ sock[fd].recv = Len(req_headerless))
        => /\ Len(sock[fd].log) = 1
           /\ sock[fd].log[1].dispatched
           /\ sock[fd].log[1].response.headers[h_Connection] = s_close

\* this step rejects the connection accepted on fd
Rejects(fd) == sock[fd].closed_by # "rejected" /\ sock'[fd].closed_by = "rejected"

\* C5: the registry never holds more than the configured maximum of
\* connections, and an accept made while it is full adds no connection,
\* adds one to the error counter and closes the accepted fd.
RegistryBounded ==
    /\ [](/\ Cardinality(DOMAIN connections) <= MaxConnections
          /\ Cardinality(DOMAIN tm_connections) <= MaxConnections)
    /\ [][\A fd \in ClientFds :
            Rejects(fd) => /\ Cardinality(DOMAIN tm_connections') = MaxConnections
                           /\ fd \notin DOMAIN connections'
                           /\ fd \notin DOMAIN tm_connections'
                           /\ error_count' = error_count + 1
                           /\ fd \notin open_fds'
                           /\ sock'[fd].closes = 1]_vars

\* an accept was rejected while the registry was full
RegistryBoundedWitness ==
    /\ Cardinality(DOMAIN connections) = MaxConnections
    /\ error_count = 1
    /\ \E fd \in ClientFds : sock[fd].closed_by = "rejected" /\ fd \notin open_fds

\* this step is a timeout sweep of Server::event_loop
Sweeps == (pc = "wait" /\ pc' = "events") \/ (pc = "events" /\ pc' = "wait")

\* C6: right after a timeout sweep no connection of the registry has a
\* last-activity instant older than the idle timeout; each connection that
\* had one is out of the registry and the reactor, and its fd is closed.
NoneExpiredAfterSweep ==
    [][Sweeps =>
        /\ \A fd \in DOMAIN connections' :
              /\ now' - connections'[fd].last_activity <= REQUEST_TIMEOUT
              /\ now' - tm_connections'[fd].last_activity <= REQUEST_TIMEOUT
        /\ \A fd \in DOMAIN connections :
              now - connections[fd].last_activity > REQUEST_TIMEOUT
              => /\ fd \notin DOMAIN connections'
                 /\ fd \notin DOMAIN tm_connections'
                 /\ fd \notin DOMAIN epoll_set'
                 /\ fd \notin open_fds'
                 /\ sock'[fd].closes = 1]_vars

\* a sweep has closed a connection that sat idle past the timeout
NoneExpiredAfterSweepWitness ==
    /\ now > REQUEST_TIMEOUT
    /\ \E fd \in ClientFds :
          /\ sock[fd].closed_by = "timeout"
          /\ fd \notin open_fds /\ fd \notin DOMAIN connections


\* C7: replies reach the peer in the order their requests were parsed and
\* are not interleaved.  On every connection the bytes the peer has received,
\* followed by the bytes the write buffer holds, are the replies queued so
\* far, whole and in the order they were queued.
RepliesInOrder ==
    \A fd \in DOMAIN connections :
        sock[fd].out \o readable_data(connections[fd].write_buffer) = Wire(sock[fd].log)

\* a second reply is on its way after the first was received whole
RepliesInOrderWitness ==
    \E fd \in DOMAIN connections :
        /\ Len(sock[fd].log) = 2
        /\ Len(sock[fd].out) > Len(to_bytes(sock[fd].log[1].response))
        /\ ~is_empty(connections[fd].write_buffer)

\* the keep-alive rule as the specification words it
WantsKeepAlive(request) ==
    LET named == {k \in DOMAIN request.headers : to_lowercase(k) = s_connection}
        values == {to_lowercase(request.headers[k]) : k \in named}
    IN  \/ request.version = "Http11" /\ s_close \notin values
        \/ request.version = "Http10" /\ s_keep_alive \in values

\* this step writes the last byte of the reply queued on fd
Drains(fd) ==
    /\ ~is_empty(connections[fd].write_buffer)
    /\ \/ sock'[fd].closed_by = "response_done"
       \/ fd \in DOMAIN connections' /\ is_empty(connections'[fd].write_buffer)

\* C8: the keep-alive policy.  The reply to a dispatched request carries
\* Connection: keep-alive, and the connection stays open once the reply has
\* drained, exactly when the request is HTTP/1.1 without Connection: close or
\* HTTP/1.0 with Connection: keep-alive, the value compared without regard to
\* case; otherwise the reply carries Connection: close and the connection is
\* closed once the reply is written.
KeepAlivePolicy ==
    /\ [](\A fd \in DOMAIN connections : \A i \in 1..Len(sock[fd].log) :
            sock[fd].log[i].dispatched =>
                sock[fd].log[i].response.headers[h_Connection] =
                    (IF WantsKeepAlive(sock[fd].log[i].request) THEN s_keep_alive ELSE s_close))
    /\ [][\A fd \in DOMAIN connections :
            (Drains(fd) /\ sock[fd].log[Len(sock[fd].log)].dispatched) =>
                IF WantsKeepAlive(sock[fd].log[Len(sock[fd].log)].request)
                THEN fd \in DOMAIN connections' /\ fd \in open_fds'
                     /\ connections'[fd].state = "Reading"
                ELSE fd \notin DOMAIN connections' /\ fd \notin open_fds']_vars

\* a reply to an HTTP/1.1 request with Connection: Close is being written on
\* a connection that answered a keep-alive request before
KeepAlivePolicyWitness ==
    \E fd \in DOMAIN connections :
        /\ Len(sock[fd].log) = 2
        /\ sock[fd].log[1].dispatched /\ WantsKeepAlive(sock[fd].log[1].request)
        /\ sock[fd].log[2].dispatched
        /\ sock[fd].log[2].request.headers[s_connection] = <<"C", "l", "o", "s", "e">>
        /\ sock[fd].log[2].response.headers[h_Connection] = s_close
        /\ sock[fd].out # <<>>

\* this step tears the connection on fd down
TearsDown(fd) == sock[fd].closed_by = "" /\ sock'[fd].closed_by # ""

\* C9: teardown.  After a connection is torn down, from whatever state and
\* by whatever path, its fd is out of the registry, the timeout tracking and
\* the reactor and it was closed exactly once; the bytes its write buffer
\* held at the teardown are not sent.
TornDownEverywhere ==
    /\ [](/\ close_errors = 0
          /\ \A fd \in ClientFds :
                sock[fd].closed_by # "" =>
                    /\ fd \notin DOMAIN connections
                    /\ fd \notin DOMAIN tm_connections
                    /\ fd \notin DOMAIN epoll_set
                    /\ fd \notin open_fds
                    /\ sock[fd].closes = 1)
    /\ [][\A fd \in DOMAIN connections :
            (TearsDown(fd) /\ sock'[fd].unsent) =>
                sock'[fd].delivered = Len(sock[fd].out)]_vars

\* a connection was torn down on HUP while its write buffer held unsent bytes
TornDownEverywhereWitness ==
    \E fd \in ClientFds :
        /\ sock[fd].closed_by = "hup"
        /\ sock[fd].closed_in = "Writing"
        /\ sock[fd].unsent

\* the Content-Length headers of a reply, whatever the case of their names
ContentLengths(response) ==
    {n \in DOMAIN response.headers : to_lowercase(n) = s_content_length}

\* C10: every reply queued for a peer has exactly one Content-Length header,
\* and its value is the length of the reply's body.
OneContentLength ==
    \A fd \in DOMAIN connections : \A i \in 1..Len(sock[fd].log) :
        LET reply == sock[fd].log[i].response IN
        /\ Cardinality(ContentLengths(reply)) = 1
        /\ \A n \in ContentLengths(reply) : reply.headers[n] = to_string(Len(reply.body))


---------------------------------------------------------------------------
(* The dispatcher behind the event loop: one peer has connected and sends  *)
(* one request, whole or cut after its first bytes.  feed_stream holds the *)
(* bytes the peer means to send and feed_pos how many it has sent.         *)

DispatchCut == 4

t_f == <<"/","f">>
t_nope == <<"/","n","o","p","e">>
t_esc == <<"/",".",".","/","s">>
t_cgi_ok == <<"/","c","g","i","/","o","k">>
t_cgi_cn == <<"/","c","g","i","/","c","n">>
t_cgix == <<"/","c","g","i","x">>
t_cgi_bad == <<"/","c","g","i","/","b","a","d">>
t_cgi_to == <<"/","c","g","i","/","t","o">>
t_cgi_big == <<"/","c","g","i","/","b","i","g">>
t_cgi_pipe == <<"/","c","g","i","/","p","i","p","e">>
t_cgi_ns == <<"/","c","g","i","/","n","s">>
t_up_x == <<"/","u","p","/","x">>
t_x == <<"x">>

DispatchMethods == {s_GET, s_POST, s_DELETE, s_HEAD, s_PUT}
DispatchTargets == {r_root, t_f, t_nope, t_esc, t_cgi_ok, t_cgi_cn, t_cgix, t_up_x, r_up,
                    r_old, t_x, t_cgi_bad, t_cgi_to, t_cgi_big, t_cgi_pipe, t_cgi_ns}
DispatchBodies == {<<>>, <<"a","b","c","d">>, <<"a","b","c","d","e">>}

\* the bytes of a request with a Content-Length header
RequestBytes(method, target, body) ==
    method \o <<" ">> \o target \o <<" ">> \o s_HTTP11 \o CRLF
    \o s_content_length \o <<":", " ">> \o to_string(Len(body)) \o CRLF \o CRLF \o body

stream_two_tokens ==
    <<"G","E","T"," ","H","T","T","P","/","1",".","1","\r","\n","H",":"," ","a","\r","\n",
      "\r","\n">>
stream_bad_method ==
    <<"B","A","D"," ","/"," ","H","T","T","P","/","1",".","1","\r","\n","H",":"," ","a",
      "\r","\n","\r","\n">>

MalformedStreams == {stream_two_tokens, stream_bad_method, stream_bad_version, stream_bad_header}

DispatchStreams ==
    {RequestBytes(m, t, b) : m \in DispatchMethods, t \in DispatchTargets, b \in DispatchBodies}
    \cup MalformedStreams

InitDispatch ==
    /\ InitBuffer
    /\ InitLookup
    /\ InitCgi
    /\ connections = EmptyMap
    /\ tm_connections = EmptyMap
    /\ epoll_set = (LISTEN_FD :> "IN")
    /\ error_count = 0
    /\ pc = "wait"
    /\ events = {}
    /\ now = 0
    /\ open_fds = {}
    /\ sock = [fd \in ClientFds |-> NewSock]
    /\ backlog = 1
    /\ peers_left = 0
    /\ close_errors = 0
    /\ files = InitialFiles
    /\ feed_stream \in DispatchStreams
    /\ feed_pos = 0
    /\ feed_parser = HttpRequestParser_new
    /\ feed_result = [kind |-> "None", err |-> "", request |-> HttpRequest_new,
                      consumed |-> 0, calls |-> 0, cut |-> 0]

\* the peer sends the rest of its request, or first its first DispatchCut bytes
PeerRequest ==
    /\ feed_pos < Len(feed_stream)
    /\ \E fd \in open_fds :
          \E k \in {Len(feed_stream) - feed_pos} \cup
                   (IF feed_pos = 0 THEN {DispatchCut} ELSE {}) :
              /\ sock' = [sock EXCEPT ![fd].rx =
                              @ \o SubSeq(feed_stream, feed_pos + 1, feed_pos + k)]
              /\ feed_pos' = feed_pos + k
    /\ UNCHANGED <<connections, tm_connections, epoll_set, error_count, pc, events, now,
                   open_fds, backlog, peers_left, close_errors, files, feed_stream,
                   feed_parser, feed_result, lookup_vars, cgi_vars, buffer_vars>>

NextDispatch ==
    \/ EpollWait
    \/ HandleEvent
    \/ EndOfTurn
    \/ PeerRequest

SpecDispatch == InitDispatch /\ [][NextDispatch]_vars


---------------------------------------------------------------------------
(* Properties of the replies to single requests.                           *)

\* every reply queued so far, with the request it answers
Logged == UNION {{sock[fd].log[i] : i \in 1..Len(sock[fd].log)} : fd \in ClientFds}

\* the route a logged request was given, 0 when none matches
RouteOf(e) == find_best_route(ServerConfig, e.request.path)

\* the Connection headers of a reply, whatever the case of their names
ConnectionHeaders(response) ==
    {n \in DOMAIN response.headers : to_lowercase(n) = s_connection}

\* C11: every reply queued for a peer has exactly one Connection header, and
\* its value is the one the keep-alive policy chose: keep-alive for a
\* dispatched request that asks for it, close otherwise; a Connection header
\* printed by a CGI script in any letter case does not show.
OneConnectionHeader ==
    \A e \in Logged :
        /\ Cardinality(ConnectionHeaders(e.response)) = 1
        /\ \A n \in ConnectionHeaders(e.response) :
              e.response.headers[n] =
                  (IF e.dispatched /\ WantsKeepAlive(e.request) THEN s_keep_alive ELSE s_close)

\* C12: a dispatched request whose path no route of the binding matches is
\* answered with 404 Not Found.
UnroutedIsNotFound ==
    \A e \in Logged : (e.dispatched /\ RouteOf(e) = 0) => e.response.status = 404

\* the handler of a logged request resolves its path under the route's root
PathResolved(e) ==
    /\ RouteOf(e) # 0
    /\ Len(e.request.body) <= ServerConfig.max_body_size
    /\ e.request.method \in ServerConfig.routes[RouteOf(e)].methods
    /\ ~ServerConfig.routes[RouteOf(e)].has_redirect
    /\ e.request.method \in {"GET", "HEAD", "DELETE"}

\* the canonical form of the path a logged request resolves to lies outside
\* the canonical form of the route's root
EscapesRoot(e) ==
    /\ ServerConfig.routes[RouteOf(e)].root \in DOMAIN InitialFiles
    /\ ~resolve_path(InitialFiles, ServerConfig.routes[RouteOf(e)].root, e.request.path,
                     ServerConfig.routes[RouteOf(e)].path).ok

\* C13: a request whose resolved path, made canonical, lies outside the
\* canonical route root is answered with 403 Forbidden, and the file it
\* names is neither served nor deleted.
TraversalForbidden ==
    \A e \in Logged :
        (e.dispatched /\ PathResolved(e) /\ EscapesRoot(e)) =>
            /\ e.response.status = 403
            /\ files = InitialFiles
            /\ e.response.body # InitialFiles[p_www_esc].content


Admitted(e) ==
    /\ e.dispatched /\ RouteOf(e) # 0
    /\ Len(e.request.body) <= ServerConfig.max_body_size
    /\ e.request.method \in ServerConfig.routes[RouteOf(e)].methods

\* the row of the handler table that applies to a request on a route
TableRow(request, route) ==
    IF route.has_redirect THEN "redirect"
    ELSE IF route.cgi THEN "cgi"
    ELSE IF request.method = "DELETE" /\ route.upload_enabled THEN "delete"
    ELSE IF request.method = "POST" /\ route.upload_enabled THEN "store"
    ELSE IF request.method \in {"GET", "HEAD"} THEN "static"
    ELSE "refuse"

\* the status a handler's result is sent with
StatusOf(handled) == IF handled.ok THEN handled.response.status ELSE 500

\* what the table row requires of the reply to request on route
RowHolds(e, request, route, row) ==
    CASE row = "redirect" ->
            /\ e.response.status = 302
            /\ h_Location \in DOMAIN e.response.headers
            /\ e.response.headers[h_Location] = route.redirect
      [] row = "cgi" ->
            e.response.status = StatusOf(handle_cgi(InitialFiles, request, route))
      [] row = "delete" ->
            e.response.status = StatusOf(handle_delete(InitialFiles, request, route))
      [] row = "store" -> e.response.status = 201
      [] row = "static" ->
            e.response.status = StatusOf(handle_get(InitialFiles, request, route))
      [] OTHER -> e.response.status = 405

\* C15: the handler table.  A request that passed route lookup, the body
\* limit and the allow-list is handled by the first row that applies: a
\* redirect route answers 302 with Location whatever the method, a CGI route
\* runs the script whatever the method, DELETE and POST on an upload route
\* delete and store (201), GET and HEAD are served statically, and anything
\* else is refused with 405.
HandlerTable ==
    \A e \in Logged :
        Admitted(e) =>
            RowHolds(e, e.request, ServerConfig.routes[RouteOf(e)],
                     TableRow(e.request, ServerConfig.routes[RouteOf(e)]))

\* the bytes the peer sends are malformed: the request line has not three
\* tokens, names no known method or version, or a header line has no colon
Malformed(stream) ==
    /\ parse(HttpRequestParser_new, stream).kind = "Err"
    /\ parse(HttpRequestParser_new, stream).err \in
          {"Invalid request line", "Unknown HTTP method", "Unsupported HTTP version",
           "Invalid header line"}

\* C17: a malformed request is never dispatched.  Every reply queued for the
\* peer that sends it is a 400 with Connection: close that no handler
\* produced, and once the reply is written the connection is closed.
MalformedRejected ==
    Malformed(feed_stream) =>
        /\ \A e \in Logged :
              /\ ~e.dispatched
              /\ e.response.status = 400
              /\ e.response.headers[h_Connection] = s_close
        /\ \A fd \in ClientFds :
              (sock[fd].log # <<>> /\ sock[fd].out = Wire(sock[fd].log)) =>
                  fd \notin DOMAIN connections /\ fd \notin open_fds


---------------------------------------------------------------------------
(* The router on its own: one lookup of a path in the routes of a binding. *)

MaxRoutes == 3

q_a == <<"/","a">>
q_a_slash == <<"/","a","/">>
q_a_b == <<"/","a","/","b">>
q_ab == <<"/","a","b">>
q_a_bc == <<"/","a","/","b","c">>
q_b == <<"/","b">>
q_bare == <<"a">>

RoutePaths == {r_root, q_a, q_a_slash, q_a_b, q_ab}
LookupPaths == {<<>>, r_root, q_a, q_a_slash, q_a_b, q_ab, q_a_bc, q_b, q_bare}

\* the route tables of up to MaxRoutes routes over RoutePaths
RouteTables ==
    UNION {[1..n -> {[RouteConfig_default EXCEPT !.path = p] : p \in RoutePaths}] :
              n \in 1..MaxRoutes}

InitRoute ==
    /\ InitBuffer
    /\ InitServer
    /\ InitFeed
    /\ InitCgi
    /\ lookup_routes \in RouteTables
    /\ lookup_path \in LookupPaths
    /\ lookup_found = -1

\* Router::find_best_route on the binding and the path
FindRoute ==
    /\ lookup_found = -1
    /\ lookup_found' = find_best_route([routes |-> lookup_routes], lookup_path)
    /\ UNCHANGED <<server_vars, feed_vars, lookup_routes, lookup_path, cgi_vars, buffer_vars>>

NextRoute == FindRoute

SpecRoute == InitRoute /\ [][NextRoute]_vars

\* the matching rule: Q equals P, or P ends in a slash and Q starts with P,
\* or Q starts with P followed by a slash
Matches(P, Q) ==
    \/ Q = P
    \/ EndsWith(P, <<"/">>) /\ StartsWith(Q, P)
    \/ StartsWith(Q, P \o <<"/">>)

\* the routes of the table that match the path looked up
Matching == {i \in 1..Len(lookup_routes) : Matches(lookup_routes[i].path, lookup_path)}

\* C16: the router selects a route exactly when some route matches the path,
\* the route selected matches it, and no matching route has a longer path
\* than the one selected.
LongestMatchSelected ==
    lookup_found # -1 =>
        /\ lookup_found = 0 <=> Matching = {}
        /\ lookup_found # 0 =>
              /\ lookup_found \in Matching
              /\ \A j \in Matching :
                    Len(lookup_routes[j].path) <= Len(lookup_routes[lookup_found].path)

\* /a/b was looked up in a table that lists /, /a/ and /a/b in that order:
\* the three match and the last, the longest, was selected
LongestMatchSelectedWitness ==
    /\ lookup_path = q_a_b
    /\ Len(lookup_routes) = 3
    /\ lookup_routes[1].path = r_root
    /\ lookup_routes[2].path = q_a_slash
    /\ lookup_routes[3].path = q_a_b
    /\ Matching = {1, 2, 3}
    /\ lookup_found = 3


---------------------------------------------------------------------------
(* Properties of the parser on single streams.                             *)

\* where the request line and the header block of a stream end (-1 for never)
LineEnd(stream) == find_sequence(stream, CRLF)
HeadEnd(stream) == find_sequence(stream, CRLFCRLF)

\* the headers a stream declares, read off its header block
DeclaredHead(stream) ==
    parse_headers(HttpRequest_new, SubSeq(stream, LineEnd(stream) + 3, HeadEnd(stream)))

\* the stream has a valid request line and a header block of valid lines
WellFormedHead(stream) ==
    /\ LineEnd(stream) >= 0 /\ HeadEnd(stream) > LineEnd(stream)
    /\ parse_request_line(HttpRequest_new, SubSeq(stream, 1, LineEnd(stream))).ok
    /\ DeclaredHead(stream).ok

\* C18: after the blank line that ends the headers the parser awaits a body
\* of n bytes when Content-Length is present with a value n > 0, fails when
\* Content-Length is absent or not greater than zero and Transfer-Encoding:
\* chunked is present, and is complete otherwise; the body of a completed
\* request has Content-Length bytes, none when the header is absent.
AfterHeaders ==
    (/\ WellFormedHead(feed_stream)
     /\ feed_result.calls > 0
     /\ feed_pos >= HeadEnd(feed_stream) + 4) =>
        IF content_length(DeclaredHead(feed_stream).request) > 0
        THEN \/ feed_result.kind = "None" /\ feed_parser.state = "Body"
             \/ /\ feed_result.kind = "Some"
                /\ Len(feed_result.request.body) =
                       content_length(DeclaredHead(feed_stream).request)
        ELSE IF is_chunked(DeclaredHead(feed_stream).request)
        THEN feed_result.kind = "Err"
        ELSE feed_result.kind = "Some" /\ feed_result.request.body = <<>>

\* percent-decoding as the specification words it: %HH with two hex digits
\* is decoded, and + becomes a space only where plus is TRUE
RECURSIVE percent_decoded(_, _, _)
percent_decoded(s, plus, acc) ==
    IF s = <<>> THEN [ok |-> TRUE, value |-> acc]
    ELSE IF Head(s) = "%"
    THEN IF Len(s) < 3 \/ HexVal(s[2]) < 0 \/ HexVal(s[3]) < 0
         THEN [ok |-> FALSE, value |-> acc]
         ELSE percent_decoded(Drop(s, 3), plus,
                              Append(acc, byte_as_char(16 * HexVal(s[2]) + HexVal(s[3]))))
    ELSE IF Head(s) = "+" /\ plus THEN percent_decoded(Tail(s), plus, Append(acc, " "))
    ELSE percent_decoded(Tail(s), plus, Append(acc, Head(s)))

\* the path part of a request target
RawPath(uri) ==
    IF find_sequence(uri, <<"?">>) >= 0 THEN SubSeq(uri, 1, find_sequence(uri, <<"?">>)) ELSE uri

\* C19: in the path part of the target of a completed request every valid
\* %HH escape is decoded and a + stays a +; a request whose path holds an
\* invalid or truncated escape is never completed.
PlusKeptInPath ==
    feed_result.kind = "Some" =>
        /\ percent_decoded(RawPath(feed_result.request.uri), FALSE, <<>>).ok
        /\ feed_result.request.path =
               percent_decoded(RawPath(feed_result.request.uri), FALSE, <<>>).value

\* C20: the decoded path of every request the parser reports as complete
\* begins with a slash and holds no % followed by two hex digits.
DecodedPathClean ==
    feed_result.kind = "Some" =>
        /\ feed_result.request.path # <<>>
        /\ Head(feed_result.request.path) = "/"
        /\ \A i \in 1..(Len(feed_result.request.path) - 2) :
              ~(/\ feed_result.request.path[i] = "%"
                /\ HexVal(feed_result.request.path[i + 1]) >= 0
                /\ HexVal(feed_result.request.path[i + 2]) >= 0)


---------------------------------------------------------------------------
(* cgi/executor.rs on its own: one run of CgiExecutor::execute_script with *)
(* the child process it spawns.  The pipes hold PipeCapacity bytes; time   *)
(* is counted in ticks since start_time and the budget is CgiTimeout       *)
(* ticks.                                                                  *)

PipeCapacity == 2
CgiTimeout == 2
MaxElapsed == CgiTimeout + 2
\* CgiExecutor.max_output_size, above what a pipe holds by default
MaxOutputSize == PipeCapacity + 1
\* a child that writes without end
Endless == 0 - 1

\* what a child does: whether the interpreter can be spawned, whether it
\* reads its stdin to the end before anything else, how many bytes it then
\* writes to its stdout, whether it exits after that, and with which status
Children ==
    [spawns : BOOLEAN, reads : BOOLEAN, output : {0, 1, PipeCapacity + 1, Endless},
     exits : BOOLEAN, status_ok : BOOLEAN]

InputLengths == {0, 1, PipeCapacity + 1}

\* execute_script is entered with input_data of the given length; reaped
\* tells whether the parent has collected the exit status of the child
\* (try_wait returning a status, or wait), pipes_open whether the parent
\* holds ends of the pipes of the child
CgiStart(child, input) ==
    [pc |-> "spawn", child |-> child, input |-> input, stdin_pipe |-> 0,
     stdin_closed |-> FALSE, phase |-> "none", to_write |-> child.output,
     stdout_pipe |-> 0, elapsed |-> 0, killed |-> FALSE, result |-> "none",
     reaped |-> FALSE, pipes_open |-> FALSE]

InitExecute ==
    /\ InitBuffer
    /\ InitServer
    /\ InitFeed
    /\ InitLookup
    /\ \E child \in Children, input \in InputLengths : cgi = CgiStart(child, input)

\* execute_script returns: child goes out of scope, which closes the pipe
\* ends the parent still holds and does not wait for the process
CgiReturn(c, result) == [c EXCEPT !.pc = "done", !.result = result, !.pipes_open = FALSE]

\* command.spawn()
CgiSpawn ==
    /\ cgi.pc = "spawn"
    /\ cgi' = IF ~cgi.child.spawns THEN CgiReturn(cgi, "SpawnFailed")
              ELSE [cgi EXCEPT !.pc = IF cgi.input > 0 THEN "write_stdin" ELSE "poll",
                               !.stdin_closed = (cgi.input = 0),
                               !.pipes_open = TRUE,
                               !.phase = IF cgi.child.reads THEN "read" ELSE "write"]
    /\ UNCHANGED <<server_vars, feed_vars, lookup_vars, buffer_vars>>

\* stdin.write_all(input_data), a blocking write: it fails once the child is
\* gone, moves a byte while the pipe has room, and ends with drop(stdin)
CgiWriteStdin ==
    /\ cgi.pc = "write_stdin"
    /\ \/ /\ cgi.phase = "dead"
          /\ cgi' = CgiReturn(cgi, "StdinFailed")
       \/ /\ cgi.phase # "dead" /\ cgi.input > 0 /\ cgi.stdin_pipe < PipeCapacity
          /\ cgi' = [cgi EXCEPT !.input = @ - 1, !.stdin_pipe = @ + 1]
       \/ /\ cgi.phase # "dead" /\ cgi.input = 0
          /\ cgi' = [cgi EXCEPT !.pc = "poll", !.stdin_closed = TRUE]
    /\ UNCHANGED <<server_vars, feed_vars, lookup_vars, buffer_vars>>

\* time passes while write_all is blocked on a full pipe
CgiBlocked ==
    /\ cgi.pc = "write_stdin"
    /\ cgi.phase # "dead" /\ cgi.input > 0 /\ cgi.stdin_pipe = PipeCapacity
    /\ cgi.elapsed < MaxElapsed
    /\ cgi' = [cgi EXCEPT !.elapsed = @ + 1]
    /\ UNCHANGED <<server_vars, feed_vars, lookup_vars, buffer_vars>>

\* one turn of the loop of read_output_with_timeout: the budget test with
\* child.kill(), then try_wait, then the sleep
CgiPoll ==
    /\ cgi.pc = "poll"
    /\ cgi' = IF cgi.elapsed > CgiTimeout
              THEN [CgiReturn(cgi, "Timeout") EXCEPT !.killed = TRUE, !.phase = "dead"]
              ELSE IF cgi.phase = "dead" THEN [cgi EXCEPT !.pc = "read_output", !.reaped = TRUE]
              ELSE [cgi EXCEPT !.elapsed = @ + 1]
    /\ UNCHANGED <<server_vars, feed_vars, lookup_vars, buffer_vars>>

\* read_to_end on the pipes of the child that exited, the size test, then
\* child.wait() and the exit status in execute_script
CgiReadOutput ==
    /\ cgi.pc = "read_output"
    /\ cgi' = IF cgi.stdout_pipe > MaxOutputSize THEN CgiReturn(cgi, "Oversize")
              ELSE IF ~cgi.child.status_ok THEN CgiReturn(cgi, "Error500")
              ELSE CgiReturn(cgi, "Response")
    /\ UNCHANGED <<server_vars, feed_vars, lookup_vars, buffer_vars>>

\* the child reads its stdin up to the end of file
ChildRead ==
    /\ cgi.pc \notin {"idle", "spawn", "done"}
    /\ cgi.phase = "read"
    /\ \/ /\ cgi.stdin_pipe > 0
          /\ cgi' = [cgi EXCEPT !.stdin_pipe = @ - 1]
       \/ /\ cgi.stdin_pipe = 0 /\ cgi.stdin_closed
          /\ cgi' = [cgi EXCEPT !.phase = "write"]
    /\ UNCHANGED <<server_vars, feed_vars, lookup_vars, buffer_vars>>

\* the child writes to its stdout while the pipe has room, then exits or
\* stays
ChildWrite ==
    /\ cgi.pc \notin {"idle", "spawn", "done"}
    /\ cgi.phase = "write"
    /\ \/ /\ cgi.to_write # 0 /\ cgi.stdout_pipe < PipeCapacity
          /\ cgi' = [cgi EXCEPT !.stdout_pipe = @ + 1,
                                !.to_write = IF @ = Endless THEN Endless ELSE @ - 1]
       \/ /\ cgi.to_write = 0
          /\ cgi' = [cgi EXCEPT !.phase = IF cgi.child.exits THEN "dead" ELSE "sleep"]
    /\ UNCHANGED <<server_vars, feed_vars, lookup_vars, buffer_vars>>

NextExecute ==
    \/ CgiSpawn
    \/ CgiWriteStdin
    \/ CgiBlocked
    \/ CgiPoll
    \/ CgiReadOutput
    \/ ChildRead
    \/ ChildWrite

SpecExecute == InitExecute /\ [][NextExecute]_vars

\* C21: every CGI run returns within the budget.  While execute_script has
\* not returned, no more than CgiTimeout ticks and the sleep of one turn have
\* passed since it started; and when it returns because the budget was
\* exceeded the child has been killed.
CgiReturnsInTime ==
    /\ cgi.pc \notin {"idle", "done"} => cgi.elapsed <= CgiTimeout + 1
    /\ (cgi.pc = "done" /\ cgi.result = "Timeout") => cgi.killed /\ cgi.phase = "dead"


---------------------------------------------------------------------------
(* Properties of the replies to CGI requests.                              *)

\* the script a request resolves to under its route
ScriptOfRequest(request, route) ==
    resolve_path(InitialFiles, route.root, request.path, route.path)

\* the request of a logged reply was handed to the CGI executor
RunsCgi(e) ==
    /\ Admitted(e)
    /\ ServerConfig.routes[RouteOf(e)].cgi
    /\ ScriptOfRequest(e.request, ServerConfig.routes[RouteOf(e)]).ok
    /\ ScriptOfRequest(e.request, ServerConfig.routes[RouteOf(e)]).path \in DOMAIN InitialFiles
    /\ InitialFiles[ScriptOfRequest(e.request, ServerConfig.routes[RouteOf(e)]).path].kind = "file"

\* how the run behind a logged reply ended
OutcomeOf(e) ==
    cgi_outcome(ScriptOfRequest(e.request, ServerConfig.routes[RouteOf(e)]).path,
                e.request.body)

CgiFailures == {"SpawnFailed", "StdinFailed", "Timeout", "Oversize", "Error500"}

---------------------------------------------------------------------------
(* The output of a CGI script, parsed: a script writes a block of header  *)
(* lines in some order, a blank line and a body, or a body with no blank  *)
(* line before it, and CgiExecutor::parse_cgi_output makes the response.  *)

MaxBlock == 3

l_x_a == [name |-> <<"X","-","A">>, value |-> <<"b">>]
l_x_b == [name |-> <<"X","-","B">>, value |-> <<"c">>]
l_status == [name |-> <<"S","t","a","t","u","s">>, value |-> <<"4","0","4"," ","N">>]
l_content_type == [name |-> h_Content_Type, value |-> <<"t">>]
CgiLines == {l_x_a, l_x_b, l_status, l_content_type}
LineEndings == {<<"\n">>, <<"\r", "\n">>}
cgi_body == <<"h","i">>

\* the header blocks a script writes: each line at most once, in any order
HeaderBlocks ==
    {b \in UNION {[1..n -> CgiLines] : n \in 1..MaxBlock} :
        \A i, j \in DOMAIN b : b[i] = b[j] => i = j}

RECURSIVE RenderBlock(_, _)
RenderBlock(block, ending) ==
    IF block = <<>> THEN <<>>
    ELSE Head(block).name \o <<":", " ">> \o Head(block).value \o ending
         \o RenderBlock(Tail(block), ending)

\* what the child wrote to its stdout
CgiStdout(block, ending, boundary) ==
    RenderBlock(block, ending) \o (IF boundary THEN ending ELSE <<>>) \o cgi_body

InitOutput ==
    /\ InitBuffer
    /\ InitServer
    /\ InitFeed
    /\ InitLookup
    /\ \/ \E block \in HeaderBlocks, ending \in LineEndings :
             cgi = [pc |-> "parse", block |-> block, boundary |-> TRUE,
                    stdout |-> CgiStdout(block, ending, TRUE)]
       \/ \E block \in {<<>>, <<l_x_a>>, <<l_status>>}, ending \in LineEndings :
             cgi = [pc |-> "parse", block |-> block, boundary |-> FALSE,
                    stdout |-> CgiStdout(block, ending, FALSE)]

\* CgiExecutor::execute_script: self.parse_cgi_output(&stdout)
ParseCgiOutput ==
    /\ cgi.pc = "parse"
    /\ cgi' = [pc |-> "parsed", block |-> cgi.block, boundary |-> cgi.boundary,
               stdout |-> cgi.stdout, response |-> parse_cgi_output(cgi.stdout)]
    /\ UNCHANGED <<server_vars, feed_vars, lookup_vars, buffer_vars>>

NextOutput == ParseCgiOutput
SpecOutput == InitOutput /\ [][NextOutput]_vars

\* the lines of a block with a given name, case ignored
Named(block, lname) == {i \in DOMAIN block : to_lowercase(block[i].name) = lname}
\* the status a block names: that of its Status line, 200 without one or
\* when the code is not a supported one
NamedStatus(block) ==
    IF Named(block, s_status) = {} THEN 200
    ELSE cgi_status(parse_u16(SubSeq(block[SetMin(Named(block, s_status))].value, 1, 3)))
\* the content type a block names
NamedContentType(block) ==
    IF Named(block, s_content_type) = {} THEN text_html
    ELSE block[SetMin(Named(block, s_content_type))].value

\* C23: a CGI output with a header block is answered with the status of its
\* Status line (200 without one), the content type of its Content-Type line
\* (text/html; charset=utf-8 without one) and every other line of the block
\* as a response header, in whatever order the script wrote the lines; an
\* output without a blank line is the body of a 200 text/html response.
CgiOutputMapped ==
    cgi.pc = "parsed" =>
        IF cgi.boundary
        THEN /\ cgi.response.status = NamedStatus(cgi.block)
             /\ h_Content_Type \in DOMAIN cgi.response.headers
             /\ cgi.response.headers[h_Content_Type] = NamedContentType(cgi.block)
             /\ \A i \in DOMAIN cgi.block :
                   to_lowercase(cgi.block[i].name) \notin {s_status, s_content_type} =>
                       /\ cgi.block[i].name \in DOMAIN cgi.response.headers
                       /\ cgi.response.headers[cgi.block[i].name] = cgi.block[i].value
             /\ cgi.response.body = cgi_body
        ELSE cgi.response = HttpResponse_html(200, cgi.stdout)

\* the same for the blocks in which no line stands before the Status line
CgiOutputMappedStatusFirst ==
    (cgi.pc = "parsed" /\ cgi.boundary /\ Named(cgi.block, s_status) \subseteq {1}) =>
        /\ cgi.response.status = NamedStatus(cgi.block)
        /\ h_Content_Type \in DOMAIN cgi.response.headers
        /\ cgi.response.headers[h_Content_Type] = NamedContentType(cgi.block)
        /\ \A i \in DOMAIN cgi.block :
              to_lowercase(cgi.block[i].name) \notin {s_status, s_content_type} =>
                  /\ cgi.block[i].name \in DOMAIN cgi.response.headers
                  /\ cgi.response.headers[cgi.block[i].name] = cgi.block[i].value


---------------------------------------------------------------------------
(* Properties of uploads.                                                  *)

\* the replies logged for fd by the step, when it stored an upload
UploadsStored(fd) ==
    {i \in (Len(sock[fd].log) + 1)..Len(sock'[fd].log) :
        /\ sock'[fd].log[i].response.status = 201
        /\ sock'[fd].log[i].request.method = "POST"}

\* C24: two successful uploads are stored under distinct file names.  A step
\* that answers an upload with 201 Created adds a file to the upload
\* directory: it does not write over a file that is already there, also when
\* the clock shows the same second as at an earlier upload.
UploadsDistinct ==
    [][\A fd \in ClientFds :
          UploadsStored(fd) # {} => DOMAIN files' # DOMAIN files]_vars

\* the same for the uploads that arrive at a second at which nothing was
\* uploaded before
UploadsDistinctAtNewSecond ==
    [][\A fd \in ClientFds :
          (/\ UploadsStored(fd) # {}
           /\ path_join(p_up, <<"upload_">> \o to_string(now) \o <<".bin">>)
                  \notin DOMAIN files)
          => DOMAIN files' # DOMAIN files]_vars


---------------------------------------------------------------------------
(* Properties of the teardown of connections.                              *)

\* the call sites of a teardown that answer to a timeout, to the peer
\* closing, resetting or hanging up, to a response without keep-alive
\* (the reply to a protocol error is one) having been written, to the
\* connection limit and to the server shutting down
TeardownCauses ==
    {"timeout", "eof", "read_error", "write_error", "hup", "response_done",
     "rejected", "shutdown"}

\* C25: the server tears a connection down only because of a timeout or a
\* protocol error, because the peer closed, reset or hung up, or because a
\* response without keep-alive was written; a readable event on which the
\* read finds no data (it would block) does not tear the connection down.
TeardownOnlyForCause ==
    \A fd \in ClientFds :
        sock[fd].closes > 0 => sock[fd].closed_by \in TeardownCauses


---------------------------------------------------------------------------
(* Properties of the timeout sweep.                                        *)

\* the step closes the connection behind fd from the timeout sweep
SweptAway(fd) ==
    /\ fd \in DOMAIN connections
    /\ sock'[fd].closed_by = "timeout"
    /\ sock'[fd].closes = sock[fd].closes + 1

\* C26: every read and every write that moves bytes on a connection
\* refreshes the instant the sweep compares against.  The sweep does not tear
\* down a connection that read request bytes or wrote response bytes less
\* than the idle timeout ago, also while its request is incomplete or its
\* response is draining.
ActivityRefreshed ==
    [][\A fd \in ClientFds :
          (SweptAway(fd) /\ sock[fd].io_at >= 0) =>
              now - sock[fd].io_at >= REQUEST_TIMEOUT]_vars


\* the connection behind fd has written a keep-alive response to the end and
\* has received nothing of a next request
BetweenRequests(fd) ==
    /\ fd \in DOMAIN connections
    /\ connections[fd].state = "Reading"
    /\ connections[fd].keep_alive
    /\ connections[fd].request_count > 0
    /\ is_empty(connections[fd].read_buffer)
    /\ connections[fd].http_parser = HttpRequestParser_new

\* C27: a connection that waits for its next request after a keep-alive
\* response is under the keep-alive timeout, not the request timeout: the
\* sweep does not tear it down before KEEP_ALIVE_TIMEOUT without activity
\* has passed.
KeepAliveTimeoutApplies ==
    [][\A fd \in ClientFds :
          (SweptAway(fd) /\ BetweenRequests(fd)) =>
              /\ now - tm_connections[fd].last_activity >= KEEP_ALIVE_TIMEOUT
              /\ now - sock[fd].io_at >= KEEP_ALIVE_TIMEOUT]_vars


---------------------------------------------------------------------------
(* Properties of the reset between two requests of a connection.           *)

\* the step takes the connection behind fd from Writing back to Reading
ResetForNext(fd) ==
    /\ fd \in DOMAIN connections /\ connections[fd].state = "Writing"
    /\ fd \in DOMAIN connections' /\ connections'[fd].state = "Reading"

\* C28: a connection between two requests has a parser in its initial state,
\* holding no byte and no field of the previous request, and an empty write
\* buffer; the reset is made only when the write buffer has drained to the
\* end, never after a partial write.
ResetOnlyWhenDrained ==
    [][\A fd \in ClientFds :
          /\ ResetForNext(fd) =>
                /\ connections'[fd].keep_alive
                /\ connections'[fd].http_parser = HttpRequestParser_new
                /\ is_empty(connections'[fd].read_buffer)
                /\ is_empty(connections'[fd].write_buffer)
                /\ sock'[fd].out = Wire(sock'[fd].log)
          /\ (fd \in DOMAIN connections' /\ connections'[fd].state = "Reading") =>
                is_empty(connections'[fd].write_buffer)]_vars

\* a connection is between two requests, its reply written in more than one
\* piece
ResetOnlyWhenDrainedWitness ==
    \E fd \in ClientFds :
        /\ BetweenRequests(fd)
        /\ is_empty(connections[fd].write_buffer)
        /\ sock[fd].log # <<>>
        /\ sock[fd].out = Wire(sock[fd].log)
        /\ Len(sock[fd].out) > PartialWrite


---------------------------------------------------------------------------
(* Properties of the interest list.                                        *)

\* C29: every client connection is registered with one interest, and the
\* interest agrees with the state of the connection: Writable exactly when
\* it is in Writing, a response being queued in its write buffer, and
\* Readable exactly when it is in Reading.
InterestAgrees ==
    \A fd \in DOMAIN connections :
        /\ fd \in DOMAIN epoll_set
        /\ epoll_set[fd] \in {"IN", "OUT"}
        /\ connections[fd].state \in {"Reading", "Writing"}
        /\ epoll_set[fd] = "OUT" <=> connections[fd].state = "Writing"
        /\ epoll_set[fd] = "IN" <=> connections[fd].state = "Reading"
        /\ connections[fd].state = "Writing" => ~is_empty(connections[fd].write_buffer)

\* a kept-alive connection has its second reply queued: its interest went
\* from Readable to Writable, back and to Writable again
InterestAgreesWitness ==
    \E fd \in DOMAIN connections :
        /\ connections[fd].state = "Writing"
        /\ epoll_set[fd] = "OUT"
        /\ Len(sock[fd].log) = 2
        /\ sock[fd].out # <<>>


---------------------------------------------------------------------------
(* Properties of events that carry Error or Hangup.                        *)

\* the step handles the event e of the batch
Handles(e) == pc = "events" /\ e \in events /\ events' = events \ {e}

\* C30: an event for a client fd that carries Error or Hangup tears the
\* connection down at once, and nothing is read from or written to the fd
\* for that event, also when the event carries Readable or Writable as well.
HangupTearsDown ==
    [][\A e \in events :
          (Handles(e) /\ e.hup /\ e.fd # LISTEN_FD /\ e.fd \in DOMAIN connections) =>
              /\ e.fd \notin DOMAIN connections'
              /\ e.fd \notin DOMAIN epoll_set'
              /\ sock'[e.fd].closed_by = "hup"
              /\ sock'[e.fd].closed_in = connections[e.fd].state
              /\ sock'[e.fd].unsent = ~is_empty(connections[e.fd].write_buffer)
              /\ sock'[e.fd].delivered = Len(sock[e.fd].out)
              /\ files' = files
              /\ error_count' = error_count]_vars

\* a connection with a reply still to write was torn down on an event that
\* carried Hangup: its interest was Writable, so the event carried both
HangupTearsDownWitness ==
    \E fd \in ClientFds :
        /\ sock[fd].closed_by = "hup"
        /\ sock[fd].closed_in = "Writing"
        /\ sock[fd].unsent


---------------------------------------------------------------------------
(* The accept loop on its own: several peers have connected before the     *)
(* listener's event is handled.                                            *)

MaxBacklog == 3

InitAccept ==
    /\ InitBuffer
    /\ connections = EmptyMap
    /\ tm_connections = EmptyMap
    /\ epoll_set = (LISTEN_FD :> "IN")
    /\ error_count = 0
    /\ pc = "wait"
    /\ events = {}
    /\ now = 0
    /\ open_fds = {}
    /\ sock = [fd \in ClientFds |-> NewSock]
    /\ backlog \in 1..MaxBacklog
    /\ peers_left = 0
    /\ close_errors = 0
    /\ files = InitialFiles
    /\ InitFeed
    /\ InitLookup
    /\ InitCgi

NextAccept ==
    \/ EpollWait
    \/ HandleEvent
    \/ EndOfTurn
    \/ Tick
    \/ PeerSend
    \/ PeerReset

SpecAccept == InitAccept /\ [][NextAccept]_vars

\* the step handles a Readable event of the listener
AcceptPass ==
    \E e \in events :
        /\ pc = "events" /\ events' = events \ {e}
        /\ e.fd = LISTEN_FD /\ e.in /\ ~e.hup

\* C31: on one Readable event of the listener the accept loop ends only when
\* accept reports that it would block: every connection pending at that
\* moment is registered or rejected in that pass, also when some of them are
\* rejected because the registry is at capacity.
AcceptDrains ==
    [][AcceptPass => backlog' = 0]_vars

\* the same for the passes in which no connection is rejected
AcceptDrainsWithoutReject ==
    [][(AcceptPass /\ error_count' = error_count) => backlog' = 0]_vars


---------------------------------------------------------------------------
(* The server when epoll_ctl can fail for want of memory or watches.       *)

\* one iteration of the for loop of Server::event_loop during which every
\* EPOLL_CTL_ADD and EPOLL_CTL_MOD fails
HandleEventCtlFails ==
    /\ pc = "events"
    /\ \E e \in events, space \in WriteSpaces :
          CommitEvent(event_or_cleanup(
                          handle_event([St EXCEPT !.ctl_fails = TRUE], backlog, e, now, space),
                          e.fd), e)
    /\ UNCHANGED <<pc, now, peers_left, feed_vars, lookup_vars, cgi_vars, buffer_vars>>

NextCtl ==
    \/ EpollWait
    \/ HandleEvent
    \/ HandleEventCtlFails
    \/ EndOfTurn
    \/ WaitFails
    \/ Tick
    \/ PeerConnect
    \/ PeerSend
    \/ PeerClose
    \/ PeerReset

\* one peer is about to connect
InitCtl ==
    /\ InitBuffer
    /\ connections = EmptyMap
    /\ tm_connections = EmptyMap
    /\ epoll_set = (LISTEN_FD :> "IN")
    /\ error_count = 0
    /\ pc = "wait"
    /\ events = {}
    /\ now = 0
    /\ open_fds = {}
    /\ sock = [fd \in ClientFds |-> NewSock]
    /\ backlog = 0
    /\ peers_left = 1
    /\ close_errors = 0
    /\ files = InitialFiles
    /\ InitFeed
    /\ InitLookup
    /\ InitCgi

SpecCtl == InitCtl /\ [][NextCtl]_vars

\* C32: when registering a client fd with the reactor, or changing its
\* interest, fails, that connection alone is dropped, its fd closed and its
\* entry removed: no accepted fd stays open without being both registered
\* and tracked, and no connection is tracked without its fd being open.
RegistrationFailureDrops ==
    /\ \A fd \in open_fds :
          /\ fd \in DOMAIN epoll_set
          /\ fd \in DOMAIN connections
          /\ fd \in DOMAIN tm_connections
    /\ DOMAIN connections \subseteq open_fds

\* the same once the fd has been registered: a failure to change the
\* interest of a connection drops the connection and closes its fd
InterestFailureDrops ==
    /\ \A fd \in open_fds :
          fd \in DOMAIN epoll_set => (fd \in DOMAIN connections /\ fd \in DOMAIN tm_connections)
    /\ DOMAIN connections \subseteq open_fds
    /\ \A fd \in ClientFds :
          sock[fd].closed_by = "handler_error" => fd \notin open_fds


---------------------------------------------------------------------------
(* Properties of the readiness wait.                                       *)

\* C33: a readiness wait that a signal interrupts yields no event and the
\* event loop goes on to its next iteration: the wait is not reported as an
\* error and does not end the server.
InterruptedWaitGoesOn ==
    [][pc = "wait" => pc' \in {"wait", "events"}]_vars

\* the same for the iterations of the loop once the wait has returned events
EventsGoOn ==
    [][pc = "events" => pc' \in {"wait", "events"}]_vars


---------------------------------------------------------------------------
(* Properties of the child process after the executor has returned.        *)

\* execute_script has returned from a run in which a child was spawned
ReturnedFromChild == cgi.pc = "done" /\ cgi.phase # "none"

\* C34: every child that was spawned is waited on and every pipe end of the
\* parent is closed on every exit path of the executor: normal completion,
\* non-zero exit, stdin write failure, budget exceeded and output over the
\* cap.  No child is left running or as a zombie.
ChildReaped ==
    ReturnedFromChild =>
        /\ cgi.reaped
        /\ cgi.phase = "dead"
        /\ ~cgi.pipes_open

\* the same for the runs that end with the output of the child read
ChildReapedAfterOutput ==
    (ReturnedFromChild /\ cgi.result \in {"Response", "Error500", "Oversize"}) =>
        /\ cgi.reaped
        /\ cgi.phase = "dead"
        /\ ~cgi.pipes_open


---------------------------------------------------------------------------
(* Properties of events that outlive their connection.                     *)

\* the connection behind fd is not the one that owned the fd when the batch
\* of events was returned: it has been accepted since, and its peer has
\* sent nothing and done nothing
Fresh(fd) ==
    /\ fd \in DOMAIN connections
    /\ sock[fd].sid = 0 /\ sock[fd].rx = <<>> /\ ~sock[fd].eof /\ ~sock[fd].rst
    /\ sock[fd].recv = 0 /\ sock[fd].log = <<>>

\* C35: an event returned by one readiness wait is applied only to the
\* connection that owned the fd when the wait returned.  When that
\* connection was torn down and the number of the fd was given to a
\* connection accepted while the batch is processed, the event left over
\* does not read from, write to or tear down the new connection.
StaleEventIgnored ==
    [][\A e \in events :
          (Handles(e) /\ e.fd # LISTEN_FD /\ Fresh(e.fd)) =>
              /\ e.fd \in DOMAIN connections'
              /\ connections'[e.fd] = connections[e.fd]
              /\ sock'[e.fd] = sock[e.fd]]_vars


---------------------------------------------------------------------------
(* The connection manager on its own: its operations are called in any     *)
(* order, on any fd.                                                       *)

\* the timeout given to ConnectionManager::new
CONNECTION_TIMEOUT == 30

\* ConnectionManager::add_connection at instant t, with
\* TimeoutManager::add_connection
add_connection(st, fd, t) ==
    IF is_at_limit(st.tm) THEN st
    ELSE [st EXCEPT !.tm = (fd :> ConnectionInfo_new(t)) @@ @,
                    !.connections = (fd :> Connection_new(t)) @@ @]

\* ConnectionManager::cleanup_timed_out at instant t, with
\* Connection::is_timed_out
cleanup_timed_out(st, t) ==
    [st EXCEPT
        !.connections = [fd \in {x \in DOMAIN @ : ~(t - @[x].last_activity > CONNECTION_TIMEOUT)}
                            |-> @[fd]]]

\* ConnectionManager::cleanup_expired at instant t
RECURSIVE remove_all(_, _)
remove_all(st, fds) ==
    IF fds = {} THEN st
    ELSE remove_all(remove_connection(st, CHOOSE x \in fds : TRUE),
                    fds \ {CHOOSE x \in fds : TRUE})
cleanup_expired(st, t) == remove_all(st, get_timed_out_connections(st.tm, t))

\* ConnectionManager::connection_count
connection_count(st) == Cardinality(DOMAIN st.connections)

InitManager ==
    /\ InitBuffer
    /\ InitServer
    /\ InitFeed
    /\ InitLookup
    /\ InitCgi

MaxRequests == 3

ManagerUnchanged ==
    UNCHANGED <<pc, events, now, backlog, peers_left, feed_vars, lookup_vars, cgi_vars, buffer_vars>>

AddConnection ==
    /\ \E fd \in ClientFds : Commit(add_connection(St, fd, now))
    /\ ManagerUnchanged
RemoveConnection ==
    /\ \E fd \in ClientFds : Commit(remove_connection(St, fd))
    /\ ManagerUnchanged
CleanupTimedOut ==
    /\ Commit(cleanup_timed_out(St, now))
    /\ ManagerUnchanged
CleanupExpired ==
    /\ Commit(cleanup_expired(St, now))
    /\ ManagerUnchanged
\* Connection::touch on a connection got with get_connection_mut
Touch ==
    /\ \E fd \in DOMAIN connections :
          Commit([St EXCEPT !.connections[fd].last_activity = now])
    /\ ManagerUnchanged
UpdateActivity ==
    /\ \E fd \in ClientFds : Commit(update_activity(St, fd, 0, now))
    /\ ManagerUnchanged
RecordRequest ==
    /\ \E fd \in ClientFds :
          /\ fd \in DOMAIN tm_connections => tm_connections[fd].request_count < MaxRequests
          /\ fd \in DOMAIN connections => connections[fd].request_count < MaxRequests
          /\ Commit(record_request(St, fd, now))
    /\ ManagerUnchanged

NextManager ==
    \/ AddConnection
    \/ RemoveConnection
    \/ CleanupTimedOut
    \/ CleanupExpired
    \/ Touch
    \/ UpdateActivity
    \/ RecordRequest
    \/ Tick

SpecManager == InitManager /\ [][NextManager]_vars

\* C36: after any sequence of add_connection, remove_connection,
\* cleanup_timed_out and cleanup_expired the fds of the connection map are
\* the fds the timeout manager tracks, so that connection_count() and the
\* count of the capacity check are the same.
RegistriesAgree ==
    /\ DOMAIN connections = DOMAIN tm_connections
    /\ connection_count(St) = Cardinality(DOMAIN tm_connections)


---------------------------------------------------------------------------
(* The request counter of a connection (server/connection.rs 58-65 and     *)
(* 173-181, server/core.rs 269-282).                                       *)

\* the requests of the connection on fd that were dispatched and answered
Dispatched(fd) == {i \in 1..Len(sock[fd].log) : sock[fd].log[i].dispatched}

\* C37: at every point the request_count of a connection is the number of
\* requests that were dispatched and answered on it, one per request, on
\* keep-alive connections and on the others alike
RequestCountExact ==
    \A fd \in DOMAIN connections :
        connections[fd].request_count = Cardinality(Dispatched(fd))

\* the same while no keep-alive response has been drained: until then the
\* counter moves only in record_request
RequestCountExactBeforeReset ==
    \A fd \in DOMAIN connections :
        (\A i \in Dispatched(fd) :
            \/ ~keep_alive(sock[fd].log[i].request)
            \/ /\ i = Len(sock[fd].log)
               /\ connections[fd].state = "Writing")
        => connections[fd].request_count = Cardinality(Dispatched(fd))


---------------------------------------------------------------------------
(* The Buffer on its own (utils/buffer.rs 15-88 and 141-145): one Buffer   *)
(* of a small capacity, and the operations of its interface called in any  *)
(* order.  buf.b is the Buffer, buf.appended the bytes put into it since   *)
(* it was last cleared, buf.obtained the bytes taken out of it through     *)
(* readable_data and consume since then; compacted and grown record that   *)
(* ensure_writable_space moved the bytes and resized the Vec.              *)

MaxCapacity == 2
MaxAppended == 4
MaxNeeded == 3
BufferBytes == {"a", "b"}
Chunks == {<<x>> : x \in BufferBytes} \cup {<<x, y>> : x \in BufferBytes, y \in BufferBytes}

InitBufferHarness ==
    /\ InitServer
    /\ InitFeed
    /\ InitLookup
    /\ InitCgi
    /\ \E capacity \in 1..MaxCapacity :
          buf = [pc |-> "open", b |-> Buffer_new(capacity), appended |-> <<>>,
                 obtained |-> <<>>, compacted |-> FALSE, grown |-> FALSE]

BufferUnchanged == UNCHANGED <<server_vars, feed_vars, lookup_vars, cgi_vars>>

\* what ensure_writable_space(needed) does to the harness
Ensured(h, needed) ==
    [h EXCEPT !.b = ensure_writable_space(h.b, needed),
              !.compacted = @ \/ (writable_bytes(h.b) < needed /\ h.b.read_pos > 0),
              !.grown = @ \/ ensure_writable_space(h.b, needed).cap > h.b.cap]

\* Buffer::append(data)
BufferAppend ==
    /\ buf.pc = "open"
    /\ \E data \in Chunks :
          /\ Len(buf.appended) + Len(data) <= MaxAppended
          /\ buf' = [Ensured(buf, Len(data)) EXCEPT !.b = append(buf.b, data),
                                                    !.appended = @ \o data]
    /\ BufferUnchanged

\* a copy into writable_space() followed by Buffer::advance_write, as
\* read_from_fd makes it: no more bytes than the space holds
BufferAdvanceWrite ==
    /\ buf.pc = "open"
    /\ \E data \in Chunks :
          /\ Len(buf.appended) + Len(data) <= MaxAppended
          /\ Len(data) <= writable_bytes(buf.b)
          /\ buf' = [buf EXCEPT !.b = advance_write(@, data), !.appended = @ \o data]
    /\ BufferUnchanged

\* readable_data() followed by Buffer::consume(bytes)
BufferConsume ==
    /\ buf.pc = "open"
    /\ \E bytes \in 0..MaxNeeded :
          buf' = [buf EXCEPT !.b = consume(@, bytes),
                             !.obtained = @ \o SubSeq(readable_data(buf.b), 1,
                                                      Min(bytes, readable_bytes(buf.b)))]
    /\ BufferUnchanged

\* Buffer::clear: the bytes still held are given up
BufferClear ==
    /\ buf.pc = "open"
    /\ buf' = [buf EXCEPT !.b = clear(@), !.appended = <<>>, !.obtained = <<>>]
    /\ BufferUnchanged

\* Buffer::ensure_writable_space(needed)
BufferEnsure ==
    /\ buf.pc = "open"
    /\ \E needed \in 0..MaxNeeded : buf' = Ensured(buf, needed)
    /\ BufferUnchanged

NextBuffer ==
    BufferAppend \/ BufferAdvanceWrite \/ BufferConsume \/ BufferClear \/ BufferEnsure
SpecBuffer == InitBufferHarness /\ [][NextBuffer]_vars

\* C38: after any sequence of append, consume, advance_write, clear and
\* ensure_writable_space the cursors are ordered, 0 <= read_pos <= write_pos
\* <= capacity, and the bytes taken out followed by the bytes still readable
\* are the bytes put in, in their order, none lost, doubled or moved
BufferFaithful ==
    buf.pc = "open" =>
        /\ 0 <= buf.b.read_pos
        /\ buf.b.read_pos <= buf.b.write_pos
        /\ buf.b.write_pos <= buf.b.cap
        /\ buf.obtained \o readable_data(buf.b) = buf.appended

\* a buffer that was compacted and grown, part of its bytes taken out and
\* part still held
BufferFaithfulWitness ==
    /\ buf.pc = "open"
    /\ buf.compacted
    /\ buf.grown
    /\ Len(buf.obtained) >= 2
    /\ readable_bytes(buf.b) >= 2
    /\ buf.b.read_pos > 0


---------------------------------------------------------------------------
(* The routes of a parsed server block (config/parser.rs 43-121,           *)
(* config/types.rs 45-56) and a lookup in them.                            *)

MaxDeclared == 2

\* parse_route_block: a route block that names the path
route_block(path) == [RouteConfig_default EXCEPT !.path = path, !.root = p_up]

\* the route blocks a server block may declare, in their order
DeclaredRoutes ==
    UNION {[1..n -> {route_block(p) : p \in RoutePaths}] : n \in 1..MaxDeclared}

\* parse_server_block: ServerConfig::default(), whose routes are the default
\* route, then server.routes.push(route) for every route block
parse_server_block(declared) ==
    [max_body_size |-> ServerConfig.max_body_size,
     routes |-> <<RouteConfig_default>> \o declared]

InitConfig ==
    /\ InitBuffer
    /\ InitServer
    /\ InitFeed
    /\ InitCgi
    /\ \E declared \in DeclaredRoutes : lookup_routes = parse_server_block(declared).routes
    /\ lookup_path \in LookupPaths
    /\ lookup_found = -1

NextConfig == FindRoute
SpecConfig == InitConfig /\ [][NextConfig]_vars

\* the routes of the block that the configuration declared: all but the
\* first, which ServerConfig::default() put there
Declared == 2..Len(lookup_routes)

\* the path of route i is the longest route path that matches the request
LongestMatching(i) ==
    /\ i \in Matching
    /\ \A j \in Matching : Len(lookup_routes[j].path) <= Len(lookup_routes[i].path)

\* C39: every declared route is reachable: a request whose longest matching
\* route path is the path P of a declared route, route / included, is
\* given a declared route of path P, never the built-in default route
DeclaredRouteReachable ==
    lookup_found # -1 =>
        \A i \in Declared :
            LongestMatching(i) =>
                /\ lookup_found \in Declared
                /\ lookup_routes[lookup_found].path = lookup_routes[i].path

\* the same for the declared routes of a path other than /
DeclaredRouteReachableBelowRoot ==
    lookup_found # -1 =>
        \A i \in Declared :
            (LongestMatching(i) /\ lookup_routes[i].path # r_root) =>
                /\ lookup_found \in Declared
                /\ lookup_routes[lookup_found].path = lookup_routes[i].path


---------------------------------------------------------------------------
(* Properties of the runs of a child that does what a CGI script should.   *)

\* the child can be spawned, reads its stdin to the end, writes no more
\* than the output cap, then exits with status 0
WellBehaved(child) ==
    /\ child.spawns
    /\ child.reads
    /\ child.exits
    /\ child.status_ok
    /\ child.output \in 0..MaxOutputSize

\* the run ended on the budget while the child could not go on: it had
\* output left to write and its stdout pipe was full
KilledWhileBlocked ==
    /\ cgi.pc = "done"
    /\ cgi.result = "Timeout"
    /\ cgi.to_write > 0
    /\ cgi.stdout_pipe = PipeCapacity

\* the run ended on the budget while the child still had a step to take:
\* the child was late
KilledWhileRunning ==
    /\ cgi.pc = "done"
    /\ cgi.result = "Timeout"
    /\ ~(cgi.to_write > 0 /\ cgi.stdout_pipe = PipeCapacity)

\* C40: the run of a well-behaved child that is not late ends with a
\* response built from all of its output, whatever the sizes of the body and
\* of the output against the capacity of the pipes: parent and child never
\* wait on each other
WellBehavedChildAnswered ==
    (cgi.pc = "done" /\ WellBehaved(cgi.child) /\ ~KilledWhileRunning) =>
        /\ cgi.result = "Response"
        /\ cgi.stdout_pipe = cgi.child.output

\* the same for the children whose output fits in the pipe
WellBehavedChildAnsweredWithinPipe ==
    (/\ cgi.pc = "done"
     /\ WellBehaved(cgi.child)
     /\ cgi.child.output <= PipeCapacity
     /\ ~KilledWhileRunning) =>
        /\ cgi.result = "Response"
        /\ cgi.stdout_pipe = cgi.child.output

=============================================================================
